---- MODULE Spec2Model ----
(***************************************************************************)
(* Model of bdrc_etext_sync: the outline-driven segmentation of a volume   *)
(* (es_utils.get_docs, _segment_etexts_by_outline, buda_api.EtextSegment)  *)
(* and the position-preserving TEI to standoff conversion                  *)
(* (tei_to_standoff.py).                                                   *)
(*                                                                         *)
(* Conventions.  A Python string is a sequence of one-character strings.   *)
(* Python None is the string None for identifiers and 0 for the optional   *)
(* etext numbers (the code only ever tests them with `or`, so None and 0   *)
(* behave alike).  A Python dict that is iterated (the milestone table) is *)
(* a sequence of [id, pos] records in insertion order.                     *)
(***************************************************************************)
EXTENDS Integers, Sequences, FiniteSets, TLC

\* ------------------------------------------------------------------ bounds
\* Source documents per volume.
MaxDocs == 3
\* Characters per converted source document.
MaxLen == 2

None == "None"

\* --------------------------------------------------------- Python helpers
Min(a, b) == IF a < b THEN a ELSE b
Max(a, b) == IF a > b THEN a ELSE b

\* Python index normalisation inside a slice of a sequence of length n.
NormIndex(i, n) == IF i < 0 THEN Max(0, n + i) ELSE Min(i, n)

\* Python s[a:b].
Slice(s, a, b) ==
    LET lo == NormIndex(a, Len(s))
        hi == NormIndex(b, Len(s))
    IN  IF hi <= lo THEN << >> ELSE SubSeq(s, lo + 1, hi)

\* The characters chr(32) .. chr(95).
AsciiFromSpace ==
    << " ", "!", "\"", "#", "$", "%", "&", "'", "(", ")", "*", "+", ",", "-", ".", "/",
       "0", "1", "2", "3", "4", "5", "6", "7", "8", "9", ":", ";", "<", "=", ">", "?",
       "@", "A", "B", "C", "D", "E", "F", "G", "H", "I", "J", "K", "L", "M", "N", "O",
       "P", "Q", "R", "S", "T", "U", "V", "W", "X", "Y", "Z", "[", "\\", "]", "^", "_" >>

\* The characters chr(97) .. chr(126).
AsciiFromLowerA ==
    << "a", "b", "c", "d", "e", "f", "g", "h", "i", "j", "k", "l", "m", "n", "o",
       "p", "q", "r", "s", "t", "u", "v", "w", "x", "y", "z", "{", "|", "}", "~" >>

\* The largest code point: chr(n) raises ValueError for a greater n.
MaxCodePoint == 1114111

\* Python chr(n) as a one-character string.  A character that has no TLA+
\* string literal is written by its code point, chr(19), and counts as one
\* character wherever a length is taken.
CharOf(n) ==
    CASE n = 9 -> "\t"
      [] n = 10 -> "\n"
      [] n = 13 -> "\r"
      [] n \in 32..95 -> AsciiFromSpace[n - 31]
      [] n \in 97..126 -> AsciiFromLowerA[n - 96]
      [] OTHER -> "chr(" \o ToString(n) \o ")"

\* The code points of the characters for which str.isspace() holds (the
\* characters the regular expression class \s matches in a str pattern).
SpaceCodePoints ==
    (9..13) \cup (28..32) \cup {133, 160, 5760} \cup (8192..8202)
        \cup {8232, 8233, 8239, 8287, 12288}

\* Python str.isspace() of one character.
IsSpace(c) == \E n \in SpaceCodePoints : c = CharOf(n)

\* A strip() test that takes every non-empty string for content.
StripNonEmpty_anyCharacter(s) == s # << >>

\* Python bool(s.strip()): some character is not white space.
StripNonEmpty(s) == \E i \in 1..Len(s) : ~IsSpace(s[i])

RECURSIVE Flatten(_)
Flatten(ss) == IF ss = << >> THEN << >> ELSE Head(ss) \o Flatten(Tail(ss))

\* ------------------------------------------------- milestone table (dict)
MsHas(ms, id) == \E i \in 1..Len(ms) : ms[i].id = id
MsGet(ms, id, default) ==
    IF MsHas(ms, id) THEN ms[CHOOSE i \in 1..Len(ms) : ms[i].id = id].pos ELSE default

\* dict[id] = pos: an existing key keeps its place, a new key is appended.
MsSet(ms, id, pos) ==
    IF MsHas(ms, id)
    THEN [i \in 1..Len(ms) |-> IF ms[i].id = id THEN [id |-> id, pos |-> pos] ELSE ms[i]]
    ELSE Append(ms, [id |-> id, pos |-> pos])

RECURSIVE MsUpdate(_, _)
MsUpdate(target, source) ==
    IF source = << >> THEN target
    ELSE MsUpdate(MsSet(target, Head(source).id, Head(source).pos), Tail(source))

\* sorted(milestones.items(), key=lambda x: x[1]): stable, by position.
RECURSIVE InsertByPos(_, _)
InsertByPos(sorted, m) ==
    IF sorted = << >> THEN << m >>
    ELSE IF m.pos < Head(sorted).pos THEN << m >> \o sorted
    ELSE << Head(sorted) >> \o InsertByPos(Tail(sorted), m)

RECURSIVE SortedMilestones(_)
SortedMilestones(ms) ==
    IF ms = << >> THEN << >>
    ELSE InsertByPos(SortedMilestones(SubSeq(ms, 1, Len(ms) - 1)), ms[Len(ms)])

\* ------------------------------------------------------------ EtextSegment
\* buda_api.EtextSegment.__init__: the segment of etext etext_num between the
\* milestones start_id and end_id (None: beginning / end of the etext).  The
\* full text and the annotations are those of converted etext etext_num.
EtextSegment(text, annotations, start_id, end_id, etext_num) ==
    LET milestones == annotations.milestones
    IN  [ start_id  |-> start_id,
          end_id    |-> end_id,
          etext_num |-> etext_num,
          start_pos |-> IF start_id # None /\ MsHas(milestones, start_id)
                        THEN MsGet(milestones, start_id, 0) ELSE 0,
          end_pos   |-> IF end_id # None /\ MsHas(milestones, end_id)
                        THEN MsGet(milestones, end_id, 0) ELSE Len(text),
          volume_char_offset |-> 0 ]

\* EtextSegment.get_text
\* GetText with the slice starting one character late.
GetText_lateStart(segment, text) == Slice(text, segment.start_pos + 1, segment.end_pos)

GetText(segment, text) == Slice(text, segment.start_pos, segment.end_pos)

\* The pages / hi / div_boundaries part of
\* EtextSegment.get_annotations_for_segment: the annotations that start inside
\* the segment, rebased and cut at its end (the keys start and end of a div
\* boundary are written cstart and cend).
RECURSIVE SegmentAnnList(_, _, _, _)
SegmentAnnList(anns, start_pos, end_pos, offset) ==
    IF anns = << >> THEN << >>
    ELSE LET a == Head(anns)
             rest == SegmentAnnList(Tail(anns), start_pos, end_pos, offset)
         IN  IF a.cstart >= start_pos /\ a.cstart < end_pos
             THEN << [a EXCEPT !.cstart = a.cstart - start_pos + offset,
                               !.cend = Min(a.cend, end_pos) - start_pos + offset] >> \o rest
             ELSE rest

RECURSIVE SegmentMilestones(_, _, _, _)
SegmentMilestones(ms, start_pos, end_pos, offset) ==
    IF ms = << >> THEN << >>
    ELSE LET m == Head(ms)
             rest == SegmentMilestones(Tail(ms), start_pos, end_pos, offset)
         IN  IF m.pos >= start_pos /\ m.pos < end_pos
             THEN << [id |-> m.id, pos |-> m.pos - start_pos + offset] >> \o rest
             ELSE rest

\* EtextSegment.get_annotations_for_segment(offset)
GetAnnotationsForSegment(segment, annotations, offset) ==
    [ pages |-> SegmentAnnList(annotations.pages, segment.start_pos, segment.end_pos, offset),
      hi    |-> SegmentAnnList(annotations.hi, segment.start_pos, segment.end_pos, offset),
      milestones |-> SegmentMilestones(annotations.milestones, segment.start_pos,
                                       segment.end_pos, offset),
      div_boundaries |-> SegmentAnnList(annotations.div_boundaries, segment.start_pos,
                                        segment.end_pos, offset) ]

\* ------------------------------------------------ OutlineEtextLookup
\* OutlineEtextLookup.__init__, the defaults of a content location read from
\* the outline graph: an absent end volume is the start volume, an absent end
\* etext is the start etext (absent too when the start is).
OutlineEtextLookupInit(graph_cls) ==
    [i \in 1..Len(graph_cls) |->
        [graph_cls[i] EXCEPT
            !.vnum_end = IF @ = 0 THEN graph_cls[i].vnum_start ELSE @,
            !.etextnum_end = IF @ = 0 THEN graph_cls[i].etextnum_start ELSE @]]

\* OutlineEtextLookup.get_content_locations_for_volume
RECURSIVE GetContentLocationsForVolume(_, _)
GetContentLocationsForVolume(cls, vnum) ==
    IF cls = << >> THEN << >>
    ELSE LET cl == Head(cls)
             rest == GetContentLocationsForVolume(Tail(cls), vnum)
         IN  IF vnum >= cl.vnum_start /\ vnum <= cl.vnum_end THEN << cl >> \o rest ELSE rest

\* ------------------------------------------------ es_utils: matching
\* Python `x or d` for an optional etext number.
OrNum(x, d) == IF x = 0 THEN d ELSE x

\* One iteration of the loop of _find_matching_cl: does cl claim the segment?
ClMatches(segment, milestones, cl) ==
    LET etext_num == segment.etext_num
        start_id == segment.start_id
        end_id == segment.end_id
        cl_start_etext == OrNum(cl.etextnum_start, 1)
        cl_end_etext == OrNum(cl.etextnum_end, etext_num)
        cl_start_id == cl.id_in_etext
        cl_end_id == cl.end_id_in_etext
    IN  /\ ~(etext_num < cl_start_etext \/ etext_num > cl_end_etext)
        /\ (etext_num = cl_start_etext /\ cl_start_id # None) =>
              /\ MsHas(milestones, cl_start_id)
              /\ ~(start_id # None
                   /\ MsGet(milestones, start_id, 0) < MsGet(milestones, cl_start_id, 0))
        /\ (etext_num = cl_end_etext /\ cl_end_id # None) =>
              /\ MsHas(milestones, cl_end_id)
              /\ ~(end_id # None
                   /\ (MsHas(milestones, end_id) =>
                         MsGet(milestones, end_id, 0) > MsGet(milestones, cl_end_id, 0)))

\* _find_matching_cl: the index of the first content location that claims
\* the segment, 0 when none does (Python None).
FindMatchingCl(segment, milestones, content_locations) ==
    IF \E i \in 1..Len(content_locations) : ClMatches(segment, milestones, content_locations[i])
    THEN CHOOSE i \in 1..Len(content_locations) :
            /\ ClMatches(segment, milestones, content_locations[i])
            /\ \A j \in 1..(i - 1) : ~ClMatches(segment, milestones, content_locations[j])
    ELSE 0

\* _is_end_of_content_location
IsEndOfContentLocation(segment, cl) ==
    LET etext_num == segment.etext_num
        cl_end_etext == OrNum(cl.etextnum_end, etext_num)
    IN  IF etext_num = cl_end_etext
        THEN IF cl.end_id_in_etext # None
             THEN segment.end_id = cl.end_id_in_etext
             ELSE segment.end_id = None
        ELSE FALSE

\* ------------------------------------------------ es_utils: documents
\* _merge_annotations(target, source)
MergeAnnotations(target, source) ==
    [ pages |-> target.pages \o source.pages,
      hi    |-> target.hi \o source.hi,
      div_boundaries |-> target.div_boundaries \o source.div_boundaries,
      milestones |-> MsUpdate(target.milestones, source.milestones) ]

\* _get_last_pnum(annotations, current_last), given annotations["pages"]
GetLastPnum(pages, current_last) ==
    IF pages # << >> THEN pages[Len(pages)].pnum ELSE current_last

ShiftAnnList(anns, start_at_c) ==
    [i \in 1..Len(anns) |-> [anns[i] EXCEPT !.cstart = @ + start_at_c, !.cend = @ + start_at_c]]

\* es_utils._shift_all_annotations(annotations, start_at_c)
\* ShiftAllAnnotations that leaves the coordinates where they are.
ShiftAllAnnotations_unshifted(annotations, start_at_c) == annotations

ShiftAllAnnotations(annotations, start_at_c) ==
    IF start_at_c = 0 THEN annotations
    ELSE [ pages |-> ShiftAnnList(annotations.pages, start_at_c),
           hi    |-> ShiftAnnList(annotations.hi, start_at_c),
           div_boundaries |-> ShiftAnnList(annotations.div_boundaries, start_at_c),
           milestones |-> [i \in 1..Len(annotations.milestones) |->
                             [annotations.milestones[i] EXCEPT !.pos = @ + start_at_c]] ]

\* _shift_pages(annotations, p_shift)
ShiftPages(annotations, p_shift) ==
    IF p_shift = 0 THEN annotations
    ELSE [annotations EXCEPT !.pages = [i \in 1..Len(@) |-> [@[i] EXCEPT !.pnum = @ + p_shift]]]

\* TibetanEasyChunker(base_string, 1500, start, end).get_chunks(), the external
\* chunker: ordered breakpoints within [start, end]; a range shorter than
\* the budget, as every range here is, is one chunk.
GetChunks(base_string, start, end) == << start, end >>

\* _build_etext_doc, the entries appended to etext_doc["chunks"] for the
\* breakpoints chunk_indexes.
ChunksOf(base_string, chunk_indexes, start_at_c) ==
    [i \in 1..(Len(chunk_indexes) - 1) |->
        [cstart |-> chunk_indexes[i] + start_at_c,
         cend |-> chunk_indexes[i + 1] + start_at_c,
         text_bo |-> Slice(base_string, chunk_indexes[i], chunk_indexes[i + 1])]]

\* _build_etext_doc, lines 519-532: each division is chunked on its own, as
\* the range [start, end) of base_string, the boundaries being the ones that
\* _shift_all_annotations has already moved by start_at_c.
RECURSIVE DivChunks(_, _, _)
DivChunks(base_string, div_boundaries, start_at_c) ==
    IF div_boundaries = << >> THEN << >>
    ELSE ChunksOf(base_string,
                  GetChunks(base_string, Head(div_boundaries).cstart, Head(div_boundaries).cend),
                  start_at_c)
         \o DivChunks(base_string, Tail(div_boundaries), start_at_c)

\* _build_etext_doc: the emitted document.  base_string is the text the
\* document is built from, whose length gives cend; it is no field of the
\* document itself.  chunks is what the document carries of it: the chunks of
\* the divisions when the annotations have any, else the chunks of the whole
\* base_string.
BuildEtextDoc(base_string, annotations, doc_num, mw_lname, start_at_c, last_pnum) ==
    LET shifted == ShiftPages(ShiftAllAnnotations(annotations, start_at_c), last_pnum)
    IN  [ etext_for_instance |-> mw_lname,
          etextNumber |-> doc_num,
          cstart |-> start_at_c,
          cend   |-> start_at_c + Len(base_string),
          etext_pages |-> shifted.pages,
          etext_spans |-> shifted.hi,
          base_string |-> base_string,
          chunks |-> IF shifted.div_boundaries # << >>
                     THEN DivChunks(base_string, shifted.div_boundaries, start_at_c)
                     ELSE ChunksOf(base_string, GetChunks(base_string, 0, Len(base_string)),
                                   start_at_c) ]

\* CreateDocumentFromParts that loses the target of the document.
CreateDocumentFromParts_noTarget(text, annotations, doc_num, mw_lname, start_at_c, last_pnum) ==
    BuildEtextDoc(text, ShiftPages(annotations, last_pnum), doc_num, None, start_at_c,
                  last_pnum)

\* CreateDocumentFromParts that files every document under the root target.
CreateDocumentFromParts_rootTarget(text, annotations, doc_num, mw_lname, start_at_c, last_pnum) ==
    BuildEtextDoc(text, ShiftPages(annotations, last_pnum), doc_num, "ROOT", start_at_c,
                  last_pnum)

\* _create_document_from_parts
CreateDocumentFromParts(text, annotations, doc_num, mw_lname, start_at_c, last_pnum) ==
    BuildEtextDoc(text, ShiftPages(annotations, last_pnum), doc_num, mw_lname,
                  start_at_c, last_pnum)

\* _create_docs_without_outline: one document per converted etext, under the
\* root target; acc is the list built so far.
\* CreateDocsWithoutOutline that skips the documents holding only white space,
\* as the gap branch of the segmentation does.
RECURSIVE CreateDocsWithoutOutline_skipBlank(_, _, _, _, _)
CreateDocsWithoutOutline_skipBlank(converted, mw_lname, acc, last_cnum, last_pnum) ==
    IF converted = << >> THEN acc
    ELSE LET etext_data == Head(converted)
             doc == BuildEtextDoc(etext_data.text, etext_data.annotations, etext_data.etext_num,
                                  mw_lname, last_cnum, last_pnum)
         IN  CreateDocsWithoutOutline_skipBlank(Tail(converted), mw_lname,
                 IF StripNonEmpty(etext_data.text) THEN Append(acc, doc) ELSE acc,
                 last_cnum + Len(etext_data.text), last_pnum)

RECURSIVE CreateDocsWithoutOutline(_, _, _, _, _)
CreateDocsWithoutOutline(converted, mw_root_lname, acc, last_cnum, last_pnum) ==
    IF converted = << >> THEN acc
    ELSE LET etext_data == Head(converted)
             text == etext_data.text
             annotations == etext_data.annotations
             new_last_pnum == IF annotations.pages # << >>
                              THEN last_pnum + annotations.pages[Len(annotations.pages)].pnum
                              ELSE last_pnum
             doc == BuildEtextDoc(text, annotations, etext_data.etext_num, mw_root_lname,
                                  last_cnum, last_pnum)
         IN  CreateDocsWithoutOutline(Tail(converted), mw_root_lname, Append(acc, doc),
                                      last_cnum + Len(text), new_last_pnum)

\* _create_docs_without_outline, what it leaves in converted_etexts: every
\* etext's annotations are handed to _build_etext_doc as they are, which
\* shifts them in place (lines 511-512) by the last_cnum and last_pnum of the
\* etext's turn.
RECURSIVE ShiftedInPlace(_, _, _)
ShiftedInPlace(converted, last_cnum, last_pnum) ==
    IF converted = << >> THEN << >>
    ELSE << [Head(converted) EXCEPT !.annotations =
                ShiftPages(ShiftAllAnnotations(@, last_cnum), last_pnum)] >>
         \o ShiftedInPlace(Tail(converted), last_cnum + Len(Head(converted).text),
                           IF Head(converted).annotations.pages # << >>
                           THEN last_pnum + Head(converted).annotations.pages[
                                                Len(Head(converted).annotations.pages)].pnum
                           ELSE last_pnum)

\* The segments of one converted etext, cut at every milestone
\* (_segment_etexts_by_outline, first loop body).
SegmentsOfEtext(etext_data, volume_char_offset) ==
    LET text == etext_data.text
        annotations == etext_data.annotations
        sorted_milestones == SortedMilestones(annotations.milestones)
        n == Len(sorted_milestones)
        Seg(start_id, end_id) ==
            LET segment == EtextSegment(text, annotations, start_id, end_id, etext_data.etext_num)
            IN  [segment EXCEPT !.volume_char_offset = volume_char_offset + segment.start_pos]
    IN  IF n > 0
        THEN [i \in 1..(n + 1) |->
                Seg(IF i = 1 THEN None ELSE sorted_milestones[i - 1].id,
                    IF i = n + 1 THEN None ELSE sorted_milestones[i].id)]
        ELSE << Seg(None, None) >>

RECURSIVE AllSegments(_, _)
AllSegments(converted, volume_char_offset) ==
    IF converted = << >> THEN << >>
    ELSE SegmentsOfEtext(Head(converted), volume_char_offset)
         \o AllSegments(Tail(converted), volume_char_offset + Len(Head(converted).text))

EmptyAnnotations ==
    [pages |-> << >>, hi |-> << >>, milestones |-> << >>, div_boundaries |-> << >>]

\* ===================================================================
\* get_docs for one volume: state
\* ===================================================================
\* ===================================================================
\* tei_to_standoff.py: the conversion passes
\* ===================================================================
\* The serialised body (xml_str at tei_to_standoff.py line 748) is a sequence
\* of items: one character, or one marker that the tree rewriting left in the
\* body.  The Python string is the concatenation of the items' strings, and a
\* position is a character offset in that string.
Chr(c) == [k |-> "chr", v |-> c]
PbMarker(pname) == [k |-> "pb", v |-> pname]
MilestoneMarker(id) == [k |-> "ms", v |-> id]
HiOpen(rend) == [k |-> "hi_open", v |-> rend]
HiClose(rend) == [k |-> "hi_close", v |-> rend]
DivStartMarker == [k |-> "div_start", v |-> ""]
DivEndMarker == [k |-> "div_end", v |-> ""]
OtherMarker(name) == [k |-> "tag", v |-> name]
Entity(name) == [k |-> "ent", v |-> name]
\* A numeric character reference &#d1d2...; with its decimal digits.
NumericEntity(digits) == [k |-> "num", v |-> digits]
\* The start marker of a div without child elements (lines 633-636): the
\* div's text is moved inside the marker, which is then written as an opening
\* and a closing tag around that text.
DivStartMarkerOpen == [k |-> "div_start_open", v |-> ""]
DivStartMarkerClose == [k |-> "div_start_close", v |-> ""]

\* The decimal digits 0 .. 9 as characters.
DigitChars == << "0", "1", "2", "3", "4", "5", "6", "7", "8", "9" >>

\* The string of a sequence of digits.
RECURSIVE DigitsStr(_)
DigitsStr(digits) ==
    IF digits = << >> THEN "" ELSE DigitChars[Head(digits) + 1] \o DigitsStr(Tail(digits))

\* Python int(num, 16) of a string of the digits 0 .. 9.
RECURSIVE HexValue(_)
HexValue(digits) ==
    IF digits = << >> THEN 0
    ELSE 16 * HexValue(SubSeq(digits, 1, Len(digits) - 1)) + digits[Len(digits)]

\* The string of an item, as etree.tostring writes it.
ItemStr(t) ==
    CASE t.k = "chr" -> t.v
      [] t.k = "pb" -> IF t.v = "" THEN "<pb_marker/>"
                       ELSE "<pb_marker>" \o t.v \o "</pb_marker>"
      [] t.k = "ms" -> "<milestone_marker>" \o t.v \o "</milestone_marker>"
      [] t.k = "hi_open" -> "<hi_" \o t.v \o ">"
      [] t.k = "hi_close" -> "</hi_" \o t.v \o ">"
      [] t.k = "div_start" -> "<div_start_marker/>"
      [] t.k = "div_end" -> "<div_end_marker/>"
      [] t.k = "tag" -> "<" \o t.v \o "/>"
      [] t.k = "ent" -> "&" \o t.v \o ";"
      [] t.k = "num" -> "&#" \o DigitsStr(t.v) \o ";"
      [] t.k = "div_start_open" -> "<div_start_marker>"
      [] t.k = "div_start_close" -> "</div_start_marker>"

\* len() of the string of an item; a character is one character, whatever
\* the way it is written.
ItemLen(t) == IF t.k = "chr" THEN 1 ELSE Len(ItemStr(t))

\* len() of the string of a sequence of items.
RECURSIVE TextLen(_)
TextLen(items) == IF items = << >> THEN 0 ELSE ItemLen(Head(items)) + TextLen(Tail(items))

\* The character offset at which item i + 1 starts (the end of item i).
Off(items, i) == TextLen(SubSeq(items, 1, i))

\* Character classes of the regular expressions.
InClass(cls, t) ==
    /\ t.k = "chr"
    /\ CASE cls = "ws" -> IsSpace(t.v)                      \* [\r\n\s]
         [] cls = "blank" -> t.v \in {"\t", " ", "\r"}      \* [\t \r]
         [] cls = "nl" -> t.v = "\n"

\* The first index at or after i whose item is not in the class.
RECURSIVE Skip(_, _, _)
Skip(cls, items, i) ==
    IF i <= Len(items) /\ InClass(cls, items[i]) THEN Skip(cls, items, i + 1) ELSE i

\* The least j > i with a closing hi marker of the same rend, 0 when none.
RECURSIVE HiCloseAfter(_, _, _)
HiCloseAfter(items, rend, j) ==
    IF j > Len(items) THEN 0
    ELSE IF items[j] = HiClose(rend) THEN j
    ELSE HiCloseAfter(items, rend, j + 1)

\* The pattern of each pass matched at item i: the index of the last item of
\* the match, 0 when the pattern does not match there.
MatchEnd(pattern, items, i) ==
    CASE pattern = "div" ->          \* <div_(start|end)_marker\s*/>
            IF items[i].k \in {"div_start", "div_end"} THEN i ELSE 0
      [] pattern = "milestones" ->   \* <milestone_marker>(?P<id>.*?)</milestone_marker>
            IF items[i].k = "ms" THEN i ELSE 0
      [] pattern = "es_milestones" -> \* [\r\n\s]*<milestone_marker>(?P<id>.*?)</milestone_marker>
            LET j == Skip("ws", items, i)
            IN  IF j <= Len(items) /\ items[j].k = "ms" THEN j ELSE 0
      [] pattern = "pages" ->        \* [\r\n\s]*(?:<pb_marker>...</pb_marker>|<pb_marker\s*/>)[\r\n\s]*
            LET j == Skip("ws", items, i)
            IN  IF j <= Len(items) /\ items[j].k = "pb" THEN Skip("ws", items, j + 1) - 1 ELSE 0
      [] pattern = "es_pages" ->     \* [\r\n\s]*<pb_marker>(?P<pname>.*?)</pb_marker>[\r\n\s]*
            LET j == Skip("ws", items, i)
            IN  IF j <= Len(items) /\ items[j].k = "pb" /\ items[j].v # ""
                THEN Skip("ws", items, j + 1) - 1 ELSE 0
      [] pattern = "hi" ->           \* (?P<ot><hi_(?P<rend>[^>]+)>)(?P<content>.*?)</hi_(?P=rend)>
            IF items[i].k = "hi_open" /\ items[i].v # ""
            THEN HiCloseAfter(items, items[i].v, i + 1) ELSE 0
      [] pattern = "other" ->        \* </?[^>]*?>
            IF \/ items[i].k \in {"tag", "hi_open", "hi_close", "div_start", "div_end",
                                 "div_start_open", "div_start_close"}
               \/ items[i].k = "pb" /\ items[i].v = ""
            THEN i ELSE 0
      [] pattern = "esc" ->          \* &(quot|apos|lt|gt|amp|#\d+);
            IF items[i].k \in {"ent", "num"} THEN i ELSE 0
      [] pattern = "nl" ->           \* [\t \r]*\n[\t \r]*
            LET j == Skip("blank", items, i)
            IN  IF j <= Len(items) /\ InClass("nl", items[j])
                THEN Skip("blank", items, j + 1) - 1 ELSE 0
      [] pattern = "nl_multi" ->     \* \n{3,}
            LET e == Skip("nl", items, i) - 1
            IN  IF e - i + 1 >= 3 THEN e ELSE 0
      [] pattern = "double" ->       \* a caller's pattern: a
            IF items[i] = Chr("a") THEN i ELSE 0

\* p.finditer(orig): the non-overlapping matches from item pos on, left to
\* right; a match is the items s..e.
RECURSIVE Finditer(_, _, _)
Finditer(pattern, items, pos) ==
    IF pos > Len(items) THEN << >>
    ELSE LET e == MatchEnd(pattern, items, pos)
         IN  IF e = 0 THEN Finditer(pattern, items, pos + 1)
             ELSE << [s |-> pos, e |-> e] >> \o Finditer(pattern, items, e + 1)

\* unescape_xml: simple_replacements.
SimpleReplacement(name) ==
    CASE name = "quot" -> "\""
      [] name = "apos" -> "'"
      [] name = "lt" -> "<"
      [] name = "gt" -> ">"
      [] name = "amp" -> "&"

\* The replacement each pass's repl function returns for match m, with
\* output_len characters written so far.
Repl(pattern, orig, m, output_len) ==
    CASE pattern = "div" ->
            IF orig[m.s].k = "div_start" THEN << >> ELSE << Chr("\n"), Chr("\n") >>
      [] pattern \in {"milestones", "es_milestones"} -> << >>
      [] pattern \in {"pages", "es_pages"} ->
            IF output_len > 0 THEN << Chr("\n"), Chr("\n") >> ELSE << >>
      [] pattern = "hi" -> SubSeq(orig, m.s + 1, m.e - 1)
      [] pattern = "other" -> << >>
      [] pattern = "esc" ->           \* repl_esc_xml, lines 339-347
            IF orig[m.s].k = "ent" THEN << Chr(SimpleReplacement(orig[m.s].v)) >>
            ELSE << Chr(CharOf(HexValue(orig[m.s].v))) >>
      [] pattern = "nl" -> << Chr("\n") >>
      [] pattern = "nl_multi" -> << Chr("\n"), Chr("\n") >>
      [] pattern = "double" -> << Chr("a"), Chr("a") >>   \* a caller's repl_fun: "aa"

\* add_position_diff that also appends at a position equal to the last one.
AddPositionDiff_appendOnEqual(pd, position, cumulative_diff) ==
    IF pd.positions = << >> \/ position >= pd.positions[Len(pd.positions)]
    THEN [positions |-> Append(pd.positions, position),
          diffs |-> Append(pd.diffs, cumulative_diff)]
    ELSE [pd EXCEPT !.diffs[Len(pd.diffs)] = cumulative_diff]

\* add_position_diff on the parallel lists pd = [positions, diffs].
AddPositionDiff(pd, position, cumulative_diff) ==
    IF pd.positions = << >> \/ position > pd.positions[Len(pd.positions)]
    THEN [positions |-> Append(pd.positions, position),
          diffs |-> Append(pd.diffs, cumulative_diff)]
    ELSE [pd EXCEPT !.diffs[Len(pd.diffs)] = cumulative_diff]

\* bisect_left in the place of bisect: a breakpoint equal to x is not passed.
RECURSIVE Bisect_left(_, _, _, _)
Bisect_left(a, x, lo, hi) ==
    IF lo < hi
    THEN LET mid == (lo + hi) \div 2
         IN  IF a[mid + 1] < x THEN Bisect_left(a, x, mid + 1, hi) ELSE Bisect_left(a, x, lo, mid)
    ELSE lo

\* bisect.bisect (bisect_right) on a[lo:hi].
RECURSIVE Bisect(_, _, _, _)
Bisect(a, x, lo, hi) ==
    IF lo < hi
    THEN LET mid == (lo + hi) \div 2
         IN  IF x < a[mid + 1] THEN Bisect(a, x, lo, mid) ELSE Bisect(a, x, mid + 1, hi)
    ELSE lo

CorrectPosition(current_position, positions, diffs) ==
    LET previous_position_i == Bisect(positions, current_position, 0, Len(positions))
    IN  IF previous_position_i < 1 THEN current_position
        ELSE current_position + diffs[previous_position_i]

\* An adjust_point without remap_if_inside_shrunk: the diff-based correction
\* for every point.
AdjustPoint_diffOnly(orig_pos, positions, diffs, collapsed_spans) ==
    CorrectPosition(orig_pos, positions, diffs)

\* apply_position_diffs.adjust_point: a point inside a shrunk match [s, e) is
\* anchored at the image of s plus its offset clamped to the replacement
\* length; any other point gets the diff-based correction.
AdjustPoint(orig_pos, positions, diffs, collapsed_spans) ==
    LET inside == { k \in 1..Len(collapsed_spans) :
                      collapsed_spans[k][1] <= orig_pos /\ orig_pos < collapsed_spans[k][2] }
    IN  IF inside # {}
        THEN LET span == collapsed_spans[CHOOSE k \in inside : \A j \in inside : k <= j]
                 rel == orig_pos - span[1]
                 out_start == CorrectPosition(span[1], positions, diffs)
                 clamped_rel == IF rel < span[3] THEN rel ELSE span[3]
             IN  out_start + clamped_rel
        ELSE CorrectPosition(orig_pos, positions, diffs)

AdjustAnnList(anns, positions, diffs, collapsed_spans) ==
    [i \in 1..Len(anns) |->
        [anns[i] EXCEPT !.cstart = AdjustPoint(@, positions, diffs, collapsed_spans),
                        !.cend = AdjustPoint(@, positions, diffs, collapsed_spans)]]

ApplyPositionDiffs(positions, diffs, annotations, collapsed_spans) ==
    [div_boundaries |-> AdjustAnnList(annotations.div_boundaries, positions, diffs, collapsed_spans),
     pages |-> AdjustAnnList(annotations.pages, positions, diffs, collapsed_spans),
     hi |-> AdjustAnnList(annotations.hi, positions, diffs, collapsed_spans),
     milestones |-> [i \in 1..Len(annotations.milestones) |->
                        [annotations.milestones[i] EXCEPT
                            !.pos = AdjustPoint(@, positions, diffs, collapsed_spans)]]]

\* get_string, growing replacement: for i in range(group_size, replacement_len).
RECURSIVE GrowDiffs(_, _, _, _, _)
GrowDiffs(pd, cumulative, output_len, i, replacement_len) ==
    IF i >= replacement_len THEN [pd |-> pd, cumulative |-> cumulative]
    ELSE GrowDiffs(AddPositionDiff(pd, output_len + i, cumulative - 1), cumulative - 1,
                   output_len, i + 1, replacement_len)

\* get_string: the body of the loop over the matches.
RECURSIVE GetStringLoop(_, _, _, _)
GetStringLoop(orig, pattern, matches, st) ==
    IF matches = << >> THEN st
    ELSE LET m == Head(matches)
             m_start == Off(orig, m.s - 1)
             m_end == Off(orig, m.e)
             group_size == m_end - m_start
             skipped_size == m_start - st.last_match_end
             output_len == st.output_len + skipped_size
             replacement == Repl(pattern, orig, m, output_len)
             replacement_len == TextLen(replacement)
             ot_len == ItemLen(orig[m.s])
             pd_ot == IF pattern = "hi"
                      THEN AddPositionDiff(st.pd, m_start + 1, st.cumulative - ot_len)
                      ELSE st.pd
             shrunk == replacement_len - group_size + st.cumulative
             grown == GrowDiffs(st.pd, st.cumulative, output_len, group_size, replacement_len)
         IN  GetStringLoop(orig, pattern, Tail(matches),
                [output |-> st.output \o SubSeq(orig, st.last_item + 1, m.s - 1) \o replacement,
                 output_len |-> output_len + replacement_len,
                 last_match_end |-> m_end,
                 last_item |-> m.e,
                 cumulative |-> IF replacement_len < group_size THEN shrunk
                                ELSE grown.cumulative,
                 pd |-> IF replacement_len < group_size
                        THEN AddPositionDiff(pd_ot, m_end, shrunk)
                        ELSE grown.pd,
                 collapsed_spans |-> IF replacement_len < group_size
                                     THEN Append(st.collapsed_spans,
                                                 << m_start, m_end, replacement_len >>)
                                     ELSE st.collapsed_spans,
                 calls |-> Append(st.calls, [m |-> m, start |-> m_start, end |-> m_end,
                                             cstart |-> output_len])])

\* What the repl function of the pass did to the annotations during the loop:
\* repl_hi_marker appends to annotations["hi"], in coordinates of orig; the
\* other passes collect in lists of their own.
ReplSideEffects(orig, pattern, calls, annotations) ==
    IF pattern = "hi"
    THEN [annotations EXCEPT !.hi = @ \o
            [i \in 1..Len(calls) |-> [rend |-> orig[calls[i].m.s].v,
                                      cstart |-> calls[i].start, cend |-> calls[i].end]]]
    ELSE annotations

\* get_string after the loop (st is the state the loop ended in): orig when
\* nothing matched, else the output with the rest of orig, and the annotations
\* after apply_position_diffs; with them the calls made to repl_fun.
GetStringReturn(orig, pattern, annotations, st) ==
        IF st.last_match_end = 0
        THEN [output |-> orig, annotations |-> annotations, calls |-> << >>,
              positions |-> << >>, diffs |-> << >>, collapsed_spans |-> << >>]
        ELSE [output |-> st.output \o SubSeq(orig, st.last_item + 1, Len(orig)),
              annotations |-> ApplyPositionDiffs(st.pd.positions, st.pd.diffs,
                                 ReplSideEffects(orig, pattern, st.calls, annotations),
                                 st.collapsed_spans),
              calls |-> st.calls,
              positions |-> st.pd.positions, diffs |-> st.pd.diffs,
              collapsed_spans |-> st.collapsed_spans]

\* get_string(orig, pattern_string, repl_fun, annotations).
GetString(orig, pattern, annotations) ==
    GetStringReturn(orig, pattern, annotations,
        GetStringLoop(orig, pattern, Finditer(pattern, orig, 1),
            [output |-> << >>, output_len |-> 0, last_match_end |-> 0, last_item |-> 0,
             cumulative |-> 0, pd |-> [positions |-> << >>, diffs |-> << >>],
             collapsed_spans |-> << >>, calls |-> << >>]))

\* es_utils.apply_position_diffs: the div boundaries are skipped, every other
\* coordinate gets the diff-based correction (the boundaries of this copy have
\* the keys start and end, written cstart and cend here as everywhere).
EsApplyPositionDiffs(positions, diffs, annotations) ==
    [div_boundaries |-> annotations.div_boundaries,
     pages |-> [i \in 1..Len(annotations.pages) |->
                  [annotations.pages[i] EXCEPT
                      !.cstart = CorrectPosition(@, positions, diffs),
                      !.cend = CorrectPosition(@, positions, diffs)]],
     hi |-> [i \in 1..Len(annotations.hi) |->
                [annotations.hi[i] EXCEPT
                    !.cstart = CorrectPosition(@, positions, diffs),
                    !.cend = CorrectPosition(@, positions, diffs)]],
     milestones |-> [i \in 1..Len(annotations.milestones) |->
                        [annotations.milestones[i] EXCEPT
                            !.pos = CorrectPosition(@, positions, diffs)]]]

\* es_utils.get_string after the loop, which is the loop of the other copy
\* without the collapsed spans.
EsGetStringReturn(orig, pattern, annotations, st) ==
        IF st.last_match_end = 0
        THEN [output |-> orig, annotations |-> annotations, calls |-> << >>,
              positions |-> << >>, diffs |-> << >>, collapsed_spans |-> << >>]
        ELSE [output |-> st.output \o SubSeq(orig, st.last_item + 1, Len(orig)),
              annotations |-> EsApplyPositionDiffs(st.pd.positions, st.pd.diffs,
                                 ReplSideEffects(orig, pattern, st.calls, annotations)),
              calls |-> st.calls,
              positions |-> st.pd.positions, diffs |-> st.pd.diffs,
              collapsed_spans |-> << >>]

\* es_utils.get_string(orig, pattern_string, repl_fun, annotations).
EsGetString(orig, pattern, annotations) ==
    EsGetStringReturn(orig, pattern, annotations,
        GetStringLoop(orig, pattern, Finditer(pattern, orig, 1),
            [output |-> << >>, output_len |-> 0, last_match_end |-> 0, last_item |-> 0,
             cumulative |-> 0, pd |-> [positions |-> << >>, diffs |-> << >>],
             collapsed_spans |-> << >>, calls |-> << >>]))

\* The annotations dict; an absent key and an empty value behave alike.
NoAnnotations == [div_boundaries |-> << >>, milestones |-> << >>, pages |-> << >>, hi |-> << >>]

\* convert_div_boundaries.repl_div_marker over the calls: a start marker opens
\* a boundary and makes it the current one, an end marker closes the current one.
RECURSIVE DivBoundariesOf(_, _, _, _)
DivBoundariesOf(orig, calls, div_boundaries, current_div_index) ==
    IF calls = << >> THEN div_boundaries
    ELSE LET c == Head(calls)
         IN  IF orig[c.m.s].k = "div_start"
             THEN DivBoundariesOf(orig, Tail(calls),
                      Append(div_boundaries, [cstart |-> c.cstart, cend |-> -1]),
                      current_div_index + 1)
             ELSE DivBoundariesOf(orig, Tail(calls),
                      IF current_div_index >= 0 /\ current_div_index < Len(div_boundaries)
                      THEN [div_boundaries EXCEPT ![current_div_index + 1].cend = c.cstart]
                      ELSE div_boundaries,
                      current_div_index)

IsComplete(boundary) == boundary.cend # -1

\* convert_div_boundaries after its get_string returned r.
DivBoundariesResult(text, r) ==
    LET div_boundaries == SelectSeq(DivBoundariesOf(text, r.calls, << >>, -1), IsComplete)
    IN  [text |-> r.output,
         annotations |-> IF div_boundaries # << >>
                         THEN [r.annotations EXCEPT !.div_boundaries = div_boundaries]
                         ELSE r.annotations]

ConvertDivBoundaries(text, annotations) ==
    DivBoundariesResult(text, GetString(text, "div", annotations))

RECURSIVE MilestoneCoords(_, _, _)
MilestoneCoords(orig, calls, milestone_coords) ==
    IF calls = << >> THEN milestone_coords
    ELSE MilestoneCoords(orig, Tail(calls),
             MsSet(milestone_coords, orig[Head(calls).m.e].v, Head(calls).cstart))

\* convert_milestones after its get_string returned r.
MilestonesResult(text, r) ==
    LET milestone_coords == MilestoneCoords(text, r.calls, << >>)
    IN  [text |-> r.output,
         annotations |-> IF milestone_coords # << >>
                         THEN [r.annotations EXCEPT !.milestones = milestone_coords]
                         ELSE r.annotations]

ConvertMilestones(text, annotations) ==
    MilestonesResult(text, GetString(text, "milestones", annotations))

\* The pb marker of a match of the page pattern.
PbOf(orig, m) == orig[Skip("ws", orig, m.s)]

\* convert_pages after its get_string returned r.
PagesResult(text, r) ==
    LET n == Len(r.calls)
        start(i) == IF r.calls[i].cstart > 0 THEN r.calls[i].cstart + 2 ELSE 0
        page_annotations ==
            [i \in 1..n |-> [cstart |-> start(i),
                             pname |-> PbOf(text, r.calls[i].m).v,
                             pnum |-> i,
                             cend |-> IF i < n THEN start(i + 1) - 2 ELSE TextLen(r.output)]]
    IN  [text |-> r.output, annotations |-> [r.annotations EXCEPT !.pages = page_annotations]]

ConvertPages(text, annotations) == PagesResult(text, GetString(text, "pages", annotations))

\* A pass that returns the output of its get_string, r.
Output(r) == [text |-> r.output, annotations |-> r.annotations]

ConvertHi(text, annotations) == Output(GetString(text, "hi", annotations))

RemoveOtherMarkers(text, annotations) == Output(GetString(text, "other", annotations))

UnescapeXml(text, annotations) == Output(GetString(text, "esc", annotations))

\* normalize_new_lines, its second get_string on the result r of the first.
NormalizeMultipleNewLines(r) == Output(GetString(r.output, "nl_multi", r.annotations))

NormalizeNewLines(text, annotations) ==
    NormalizeMultipleNewLines(GetString(text, "nl", annotations))

\* es_utils.convert_div_boundaries, convert_milestones and convert_pages: the
\* passes of the other copy on es_utils.get_string, the last two with
\* patterns of their own.
EsConvertDivBoundaries(text, annotations) ==
    DivBoundariesResult(text, EsGetString(text, "div", annotations))

EsConvertMilestones(text, annotations) ==
    MilestonesResult(text, EsGetString(text, "es_milestones", annotations))

EsConvertPages(text, annotations) ==
    PagesResult(text, EsGetString(text, "es_pages", annotations))

\* re.sub(r'\n{3,}', '\n\n', xml_str), es_utils.py line 1060: no coordinate
\* is updated.
RECURSIVE LimitLineBreaks(_)
LimitLineBreaks(text) ==
    IF text = << >> THEN << >>
    ELSE LET e == Skip("nl", text, 1) - 1
         IN  IF e >= 3
             THEN << Chr("\n"), Chr("\n") >> \o LimitLineBreaks(SubSeq(text, e + 1, Len(text)))
             ELSE IF e >= 1
             THEN SubSeq(text, 1, e) \o LimitLineBreaks(SubSeq(text, e + 1, Len(text)))
             ELSE << Head(text) >> \o LimitLineBreaks(Tail(text))

\* One pass of es_utils.convert_tei_root_to_text (lines 1046-1060) over r, the
\* text and the annotations that the pass before it returned.
EsPass(r, pass) ==
    CASE pass = "convert_div_boundaries" -> EsConvertDivBoundaries(r.text, r.annotations)
      [] pass = "convert_milestones" -> EsConvertMilestones(r.text, r.annotations)
      [] pass = "convert_pages" -> EsConvertPages(r.text, r.annotations)
      [] pass = "convert_hi" -> Output(EsGetString(r.text, "hi", r.annotations))
      [] pass = "remove_other_markers" -> Output(EsGetString(r.text, "other", r.annotations))
      [] pass = "unescape_xml" -> Output(EsGetString(r.text, "esc", r.annotations))
      [] pass = "normalize_new_lines" -> Output(EsGetString(r.text, "nl", r.annotations))
      [] pass = "limit_line_breaks" ->
            [text |-> LimitLineBreaks(r.text), annotations |-> r.annotations]

\* The passes in the order of lines 1046-1060. Under xml:space="preserve" the
\* divisions are not converted and the line breaks are not limited.
EsPasses(xml_space_preserve) ==
    (IF xml_space_preserve THEN << >> ELSE << "convert_div_boundaries" >>)
        \o << "convert_milestones", "convert_pages", "convert_hi",
              "remove_other_markers", "unescape_xml", "normalize_new_lines" >>
        \o (IF xml_space_preserve THEN << >> ELSE << "limit_line_breaks" >>)

RECURSIVE EsApplyPasses(_, _)
EsApplyPasses(r, passes) ==
    IF passes = << >> THEN r
    ELSE EsApplyPasses(EsPass(r, Head(passes)), Tail(passes))

\* es_utils.convert_tei_root_to_text, from line 1046 on: the passes over
\* xml_str, the string that line 1044 leaves (the serialised body after the
\* substitutions of the div, p, body, text_marker and lb_marker tags).
ConvertTeiRootToText(xml_str, xml_space_preserve) ==
    EsApplyPasses([text |-> xml_str, annotations |-> NoAnnotations],
                  EsPasses(xml_space_preserve))

\* tei_to_standoff._shift_all_annotations: every coordinate moves by offset and
\* is clamped at 0.
ShiftClamped(anns, offset) ==
    [i \in 1..Len(anns) |-> [anns[i] EXCEPT !.cstart = Max(0, @ + offset),
                                            !.cend = Max(0, @ + offset)]]

StandoffShiftAllAnnotations(annotations, offset) ==
    IF offset = 0 THEN annotations
    ELSE [div_boundaries |-> ShiftClamped(annotations.div_boundaries, offset),
          pages |-> ShiftClamped(annotations.pages, offset),
          hi |-> ShiftClamped(annotations.hi, offset),
          milestones |-> [i \in 1..Len(annotations.milestones) |->
                             [annotations.milestones[i] EXCEPT !.pos = Max(0, @ + offset)]]]

\* A count of the trailing white space that stops at one character.
TrailingSpace_atMostOne(text) ==
    IF text # << >> /\ InClass("ws", text[Len(text)]) THEN 1 ELSE 0

\* The number of white-space items at the end of the text.
RECURSIVE TrailingSpace(_)
TrailingSpace(text) ==
    IF text # << >> /\ InClass("ws", text[Len(text)])
    THEN 1 + TrailingSpace(SubSeq(text, 1, Len(text) - 1)) ELSE 0

ClampToLength(anns, new_length) ==
    [i \in 1..Len(anns) |-> [anns[i] EXCEPT !.cstart = IF @ > new_length THEN new_length ELSE @,
                                            !.cend = IF @ > new_length THEN new_length ELSE @]]

TrimTextAndAdjustAnnotations(text, annotations) ==
    LET s_count == Skip("ws", text, 1) - 1
        annotations1 == IF s_count > 0 THEN StandoffShiftAllAnnotations(annotations, -s_count)
                        ELSE annotations
        text1 == SubSeq(text, s_count + 1, Len(text))
        e_count == TrailingSpace(text1)
        new_length == TextLen(text1) - e_count
    IN  IF e_count > 0
        THEN [text |-> SubSeq(text1, 1, Len(text1) - e_count),
              annotations |->
                 [div_boundaries |-> ClampToLength(annotations1.div_boundaries, new_length),
                  pages |-> ClampToLength(annotations1.pages, new_length),
                  hi |-> ClampToLength(annotations1.hi, new_length),
                  milestones |-> [i \in 1..Len(annotations1.milestones) |->
                                     [annotations1.milestones[i] EXCEPT
                                         !.pos = IF @ > new_length THEN new_length ELSE @]]]]
        ELSE [text |-> text1, annotations |-> annotations1]

\* align_div_milestones_nl._skip_newlines, on the final text (characters only;
\* milestone and div coordinates are never negative).
RECURSIVE SkipNewlines(_, _)
SkipNewlines(text, position) ==
    IF position < Len(text) /\ InClass("nl", text[position + 1])
    THEN SkipNewlines(text, position + 1) ELSE position

AlignDivMilestonesNl(text, annotations) ==
    IF annotations.div_boundaries = << >> \/ annotations.milestones = << >> THEN annotations
    ELSE LET milestones == annotations.milestones
             div_boundaries == annotations.div_boundaries
         IN  [annotations EXCEPT
                !.milestones = [i \in 1..Len(milestones) |->
                    [id |-> milestones[i].id, pos |-> SkipNewlines(text, milestones[i].pos)]],
                !.div_boundaries = [i \in 1..Len(div_boundaries) |->
                    [cstart |-> div_boundaries[i].cstart,
                     cend |-> SkipNewlines(text, div_boundaries[i].cend)]]]

BopId(pnum) == "bop:" \o ToString(pnum)
EopId(pnum) == "eop:" \o ToString(pnum)

RECURSIVE PageBoundaryMilestones(_, _)
PageBoundaryMilestones(pages, milestones) ==
    IF pages = << >> THEN milestones
    ELSE PageBoundaryMilestones(Tail(pages),
             MsSet(MsSet(milestones, BopId(Head(pages).pnum), Head(pages).cstart),
                   EopId(Head(pages).pnum), Head(pages).cend))

\* A synthesis that puts eop:N at the start of page N.
SynthesizePageBoundaryMilestones_eopAtStart(annotations) ==
    [annotations EXCEPT !.milestones =
        PageBoundaryMilestones([i \in 1..Len(annotations.pages) |->
                                   [annotations.pages[i] EXCEPT !.cend = annotations.pages[i].cstart]],
                               @)]

SynthesizePageBoundaryMilestones(annotations) ==
    [annotations EXCEPT !.milestones = PageBoundaryMilestones(annotations.pages, @)]

\* ------------------------------------------------------------------ state
VARIABLES
    xml_files,                \* input: the source documents of the volume, in file order
    outline,                  \* input: outline_lname given?, its graph fetched?,
                              \* the constructor raises?, its cls
    vol_num,                  \* input: the number of the volume
    pc,                       \* position in get_docs
    oel,                      \* the OutlineEtextLookup, or absent
    converted_etexts,
    content_locations,
    all_segments,
    seg_i,                    \* index of the next segment of the segment loop
    doc_counter,
    current_doc_text,
    current_doc_annotations,
    current_doc_mw,
    current_doc_start_offset,
    last_pnum,
    docs,                     \* the documents returned for the volume
    log,                      \* the calls made to logging
    root,                     \* input of convert_tei_root_to_standoff: body?, its items
    step,                     \* position in convert_tei_root_to_standoff
    xml_str,                  \* the text under conversion
    xml_annotations,          \* the annotations dict of the conversion
    call,                     \* a call of a helper function on its own: its arguments
    result                    \* what the call returned, once made

segVars == << xml_files, outline, vol_num, pc, oel, converted_etexts, content_locations,
              all_segments, seg_i, doc_counter, current_doc_text, current_doc_annotations,
              current_doc_mw, current_doc_start_offset, last_pnum, docs, log >>
convVars == << root, step, xml_str, xml_annotations >>
funVars == << call, result >>
vars == << segVars, convVars, funVars >>

inputVars == << xml_files, outline, vol_num >>
loopVars == << doc_counter, current_doc_text, current_doc_annotations, current_doc_mw,
               current_doc_start_offset, last_pnum >>

mw_root_lname == "ROOT"

LogEntry(level, event, etext_num, start_id, end_id) ==
    [level |-> level, event |-> event, etext_num |-> etext_num,
     start_id |-> start_id, end_id |-> end_id]

\* ------------------------------------------------------------------ inputs
Alphabet == << "a", "b", "c", "d", "e", "f", "g", "h", "i", "j", "k", "l", "m", "n",
               "o", "p", "q", "r", "s", "t" >>

\* The letter at place i of source document d; the documents of a volume
\* have no letter in common.
InputLetter(d, i) == Alphabet[(d - 1) * (MaxLen + 1) + i]

\* The markers of the milestones that sit after i characters of the content
\* (p1, p2: the places of m1 and m2, -1 for a milestone the document has not).
MilestoneMarkersAt(i, p1, p2) ==
    (IF p1 = i THEN << MilestoneMarker("m1") >> ELSE << >>)
        \o (IF p2 = i THEN << MilestoneMarker("m2") >> ELSE << >>)

\* The characters lo .. hi of the content of document d with their markers:
\* len letters, the last one a blank when blank holds (the text of an element
\* of its own, which the removal of the p tags leaves alone); with ann, a page
\* break before the first character and the last character highlighted.
RECURSIVE InputContent(_, _, _, _, _, _, _, _)
InputContent(d, lo, hi, len, blank, p1, p2, ann) ==
    IF lo > hi THEN << >>
    ELSE LET c == IF blank /\ lo = len THEN Chr(" ") ELSE Chr(InputLetter(d, lo))
         IN  (IF lo = 1
              THEN (IF ann THEN << PbMarker("1") >> ELSE << >>) \o MilestoneMarkersAt(0, p1, p2)
              ELSE << >>)
             \o (IF ann /\ lo = len THEN << HiOpen("bold"), c, HiClose("bold") >> ELSE << c >>)
             \o MilestoneMarkersAt(lo, p1, p2)
             \o InputContent(d, lo + 1, hi, len, blank, p1, p2, ann)

\* The layouts of a source document: "none", one paragraph under
\* xml:space="preserve", <p>content</p>; "whole", one division of one
\* paragraph, <div><p>content</p></div>; "head", a division of the first
\* character and a paragraph of the others, <div><p>c</p></div><p>rest</p>.
DivOptions == { "none", "whole", "head" }

\* Two line breaks, what the opening or the closing tag of a div or of a p
\* becomes at lines 1038-1041.
Break == << Chr("\n"), Chr("\n") >>

\* xml_str as line 1044 leaves it for a document of the layout div.
InputBody(d, len, blank, p1, p2, ann, div) ==
    CASE div = "none" -> InputContent(d, 1, len, len, blank, p1, p2, ann)
      [] div = "whole" ->
            Break \o << DivStartMarker >> \o Break
                \o InputContent(d, 1, len, len, blank, p1, p2, ann)
                \o Break \o << DivEndMarker >> \o Break
      [] div = "head" ->
            Break \o << DivStartMarker >> \o Break
                \o InputContent(d, 1, 1, len, blank, p1, p2, ann)
                \o Break \o << DivEndMarker >> \o Break
                \o (IF len > 1
                    THEN Break \o InputContent(d, 2, len, len, blank, p1, p2, ann) \o Break
                    ELSE << >>)

\* The characters of a text that holds characters only.
CharsOf(items) == [i \in 1..Len(items) |-> items[i].v]

\* A source document with r, what convert_tei_root_to_text returns for it.
InputFile(serialised, preserve, body, r) ==
    [ body |-> body,
      xml_space_preserve |-> preserve,
      xml_str |-> serialised,
      text |-> CharsOf(r.text),
      annotations |-> [r.annotations EXCEPT !.pages =
                          [i \in 1..Len(@) |-> [pnum |-> @[i].pnum, cstart |-> @[i].cstart,
                                                cend |-> @[i].cend]]] ]

SourceFile(serialised, preserve, body) ==
    InputFile(serialised, preserve, body, ConvertTeiRootToText(serialised, preserve))

\* The volumes: n documents of len characters; m1 may sit in the first
\* document and m2 in the last one.
InputFiles(n, len, blankLast, p1, p2, ann, div, noBody) ==
    [d \in 1..n |->
        SourceFile(InputBody(d, len, blankLast /\ d = n,
                             IF d = 1 THEN p1 ELSE -1, IF d = n THEN p2 ELSE -1, ann, div),
                   div = "none", d # noBody)]

ContentLocation(mw, vnum_end, range, start_id, end_id) ==
    [ mw |-> mw, vnum_start |-> 1, vnum_end |-> vnum_end,
      etextnum_start |-> range[1], etextnum_end |-> range[2],
      id_in_etext |-> start_id, end_id_in_etext |-> end_id ]

\* etext ranges of a content location over n documents, as the outline graph
\* gives them (<<0, 0>>: none given; <<1, 0>>: the start only)
EtextRanges(n) == { <<0, 0>>, <<1, 0>>, <<1, 1>>, <<1, n>>, <<n, n>> }

FirstCls(n) ==
    { ContentLocation("A", 1, r, s, e) :
        r \in EtextRanges(n), s \in {None, "m1"}, e \in {None, "m2"} }

SecondCls(n) ==
    { ContentLocation("B", 1, r, s, None) :
        r \in { <<0, 0>>, <<n, n>> }, s \in {None, "m1", "m2"} }

\* The content-location lists of an outline for this etext instance.
\* The content locations of A that span volumes 1 and 2; the etext of the end,
\* in volume 2, may come before the etext of the start, in volume 1.
SpanningCls(n) ==
    { ContentLocation("A", 2, r, s, e) :
        r \in EtextRanges(n) \cup { <<n, 1>> }, s \in {None, "m1"}, e \in {None, "m2"} }

OutlineCls(n) ==
    { << a >> : a \in FirstCls(n) }
    \cup { << a, b >> : a \in FirstCls(n), b \in SecondCls(n) }
    \cup { << b, a >> : a \in FirstCls(n), b \in SecondCls(n) }
    \cup { << a >> : a \in SpanningCls(n) }

\* The variables of the conversion, at rest.
ConversionIdle ==
    /\ root = [body |-> FALSE, items |-> << >>]
    /\ step = "idle"
    /\ xml_str = << >>
    /\ xml_annotations = NoAnnotations

\* No helper function is called on its own.
FunctionIdle ==
    /\ call = [fn |-> "none"]
    /\ result = [done |-> FALSE, times |-> 0, value |-> 0]

Init ==
    /\ \E n \in 1..MaxDocs, len \in 1..MaxLen, blankLast \in BOOLEAN, ann \in BOOLEAN :
       \E p1 \in -1..len, p2 \in -1..len, div \in DivOptions :
          \/ /\ xml_files = InputFiles(n, len, blankLast, p1, p2, ann, div, 0)
             /\ \E cls \in OutlineCls(n) :
                  outline = [given |-> TRUE, fetched |-> TRUE, raises |-> FALSE, cls |-> cls]
             /\ vol_num = 1
          \/ /\ xml_files = InputFiles(n, len, blankLast, p1, p2, ann, div, 0)
             /\ \E a \in FirstCls(n) \cup SpanningCls(n) :
                  outline = [given |-> TRUE, fetched |-> TRUE, raises |-> FALSE, cls |-> << a >>]
             /\ vol_num = 2
          \/ /\ \E noBody \in 0..n :
                  xml_files = InputFiles(n, len, blankLast, p1, p2, ann, div, noBody)
             /\ \E given \in BOOLEAN, fetched \in BOOLEAN :
                  /\ fetched => given
                  /\ outline = [given |-> given, fetched |-> fetched, raises |-> fetched,
                                cls |-> << >>]
             /\ vol_num = 1
    /\ pc = "start"
    /\ oel = [present |-> FALSE, cls |-> << >>]
    /\ converted_etexts = << >>
    /\ content_locations = << >>
    /\ all_segments = << >>
    /\ seg_i = 1
    /\ doc_counter = 0
    /\ current_doc_text = << >>
    /\ current_doc_annotations = EmptyAnnotations
    /\ current_doc_mw = None
    /\ current_doc_start_offset = 0
    /\ last_pnum = 0
    /\ docs = << >>
    /\ log = << >>
    /\ ConversionIdle
    /\ FunctionIdle

\* ------------------------------------------------------------------ get_docs
\* oel = OutlineEtextLookup(outline_lname, ie_lname) when an outline is named.
\* get_outline_graph lets no exception out (its finally returns the graph):
\* when the fetch fails the graph is empty, the constructor warns "no g" and
\* returns a lookup without content locations.  An exception of the
\* constructor itself, on the graph fetched, leaves oel None.
FetchOutline ==
    /\ pc = "start"
    /\ oel' = IF outline.given /\ outline.fetched /\ ~outline.raises
              THEN [present |-> TRUE, cls |-> OutlineEtextLookupInit(outline.cls)]
              ELSE IF outline.given /\ ~outline.fetched
              THEN [present |-> TRUE, cls |-> << >>]
              ELSE [present |-> FALSE, cls |-> << >>]
    /\ log' = IF outline.given /\ ~outline.fetched
              THEN Append(log, LogEntry("warning", "no g", 0, None, None))
              ELSE IF outline.given /\ outline.raises
              THEN Append(log, LogEntry("exception", "could not get outline", 0, None, None))
              ELSE log
    /\ pc' = "convert"
    /\ UNCHANGED << convVars, funVars, inputVars, converted_etexts, content_locations, all_segments, seg_i,
                    loopVars, docs >>

\* STEP 1, one file that has a body: convert_tei_root_to_text returns its text
\* and annotations.
ConvertEtext ==
    /\ pc = "convert"
    /\ Len(converted_etexts) < Len(xml_files)
    /\ LET doc_num == Len(converted_etexts)
           f == xml_files[doc_num + 1]
       IN  /\ f.body
           /\ converted_etexts' = Append(converted_etexts,
                 [etext_num |-> doc_num + 1, text |-> f.text, annotations |-> f.annotations])
    /\ UNCHANGED << convVars, funVars, inputVars, pc, oel, content_locations, all_segments, seg_i,
                    loopVars, docs, log >>

\* STEP 1, one file without body: es_utils.convert_tei_root_to_text calls
\* logging.error with the keyword file=, which raises TypeError (and would
\* return a bare None that get_docs cannot unpack); get_docs has no handler.
ConvertEtextNoBody ==
    /\ pc = "convert"
    /\ Len(converted_etexts) < Len(xml_files)
    /\ ~xml_files[Len(converted_etexts) + 1].body
    /\ pc' = "raised"
    /\ UNCHANGED << convVars, funVars, inputVars, oel, converted_etexts, content_locations, all_segments,
                    seg_i, loopVars, docs, log >>

\* STEP 2 without oel: _create_docs_without_outline.
DocsWithoutOutline ==
    /\ pc = "convert"
    /\ Len(converted_etexts) = Len(xml_files)
    /\ ~oel.present
    /\ docs' = CreateDocsWithoutOutline(converted_etexts, mw_root_lname, << >>, 0, 0)
    /\ converted_etexts' = ShiftedInPlace(converted_etexts, 0, 0)
    /\ pc' = "done"
    /\ UNCHANGED << convVars, funVars, inputVars, oel, content_locations, all_segments,
                    seg_i, loopVars, log >>

\* _segment_etexts_by_outline when the outline has no content location for
\* the volume.
SegmentNoContentLocations ==
    /\ pc = "convert"
    /\ Len(converted_etexts) = Len(xml_files)
    /\ oel.present
    /\ GetContentLocationsForVolume(oel.cls, vol_num) = << >>
    /\ log' = Append(log, LogEntry("warning", "no content locations", 0, None, None))
    /\ docs' = CreateDocsWithoutOutline(converted_etexts, mw_root_lname, << >>, 0, 0)
    /\ converted_etexts' = ShiftedInPlace(converted_etexts, 0, 0)
    /\ pc' = "done"
    /\ UNCHANGED << convVars, funVars, inputVars, oel, content_locations, all_segments,
                    seg_i, loopVars >>

\* _segment_etexts_by_outline up to the segment loop: the list of segments.
BuildSegments ==
    /\ pc = "convert"
    /\ Len(converted_etexts) = Len(xml_files)
    /\ oel.present
    /\ GetContentLocationsForVolume(oel.cls, vol_num) # << >>
    /\ content_locations' = GetContentLocationsForVolume(oel.cls, vol_num)
    /\ all_segments' = AllSegments(converted_etexts, 0)
    /\ seg_i' = 1
    /\ pc' = "loop"
    /\ UNCHANGED << convVars, funVars, inputVars, oel, converted_etexts, loopVars, docs, log >>

\* The segment loop, a segment that a content location claims.
MatchedSegment ==
    /\ pc = "loop"
    /\ seg_i <= Len(all_segments)
    /\ LET segment == all_segments[seg_i]
           etext_data == converted_etexts[segment.etext_num]
           k == FindMatchingCl(segment, etext_data.annotations.milestones, content_locations)
       IN  /\ k # 0
           /\ LET matching_cl == content_locations[k]
                  overlap == current_doc_mw # None /\ current_doc_mw # matching_cl.mw
                  \* the document closed by the overlap
                  closing == overlap /\ current_doc_text # << >>
                  doc1 == CreateDocumentFromParts(current_doc_text, current_doc_annotations,
                              doc_counter + 1, current_doc_mw, current_doc_start_offset,
                              last_pnum)
                  counter1 == IF closing THEN doc_counter + 1 ELSE doc_counter
                  docs1 == IF closing THEN Append(docs, doc1) ELSE docs
                  pnum1 == IF closing THEN GetLastPnum(doc1.etext_pages, last_pnum)
                           ELSE last_pnum
                  text1 == IF overlap THEN << >> ELSE current_doc_text
                  ann1 == IF overlap THEN EmptyAnnotations ELSE current_doc_annotations
                  mw1 == IF overlap \/ current_doc_mw = None THEN matching_cl.mw
                         ELSE current_doc_mw
                  start1 == IF overlap \/ current_doc_mw = None
                            THEN segment.volume_char_offset ELSE current_doc_start_offset
                  \* the segment is added to the current document
                  seg_text == GetText(segment, etext_data.text)
                  seg_annotations == GetAnnotationsForSegment(segment, etext_data.annotations,
                                                              Len(text1))
                  text2 == text1 \o seg_text
                  ann2 == MergeAnnotations(ann1, seg_annotations)
                  ending == IsEndOfContentLocation(segment, matching_cl)
                  finishing == ending /\ text2 # << >>
                  doc2 == CreateDocumentFromParts(text2, ann2, counter1 + 1, mw1, start1, pnum1)
              IN  /\ log' = IF overlap
                            THEN Append(log, LogEntry("error", "overlap", segment.etext_num,
                                                      segment.start_id, segment.end_id))
                            ELSE log
                  /\ docs' = IF finishing THEN Append(docs1, doc2) ELSE docs1
                  /\ doc_counter' = IF finishing THEN counter1 + 1 ELSE counter1
                  /\ last_pnum' = IF finishing THEN GetLastPnum(doc2.etext_pages, pnum1)
                                  ELSE pnum1
                  /\ current_doc_text' = IF ending THEN << >> ELSE text2
                  /\ current_doc_annotations' = IF ending THEN EmptyAnnotations ELSE ann2
                  /\ current_doc_mw' = IF ending THEN None ELSE mw1
                  /\ current_doc_start_offset' = start1
    /\ seg_i' = seg_i + 1
    /\ UNCHANGED << convVars, funVars, inputVars, pc, oel, converted_etexts, content_locations, all_segments >>

\* The segment loop, a segment that no content location claims: a gap.
GapSegment ==
    /\ pc = "loop"
    /\ seg_i <= Len(all_segments)
    /\ LET segment == all_segments[seg_i]
           etext_data == converted_etexts[segment.etext_num]
           seg_text == GetText(segment, etext_data.text)
           seg_annotations == GetAnnotationsForSegment(segment, etext_data.annotations, 0)
           emitting == StripNonEmpty(seg_text)
           doc == CreateDocumentFromParts(seg_text, seg_annotations, doc_counter + 1,
                      mw_root_lname, segment.volume_char_offset, last_pnum)
       IN  /\ FindMatchingCl(segment, etext_data.annotations.milestones, content_locations) = 0
           /\ log' = Append(log, LogEntry("error", "gap", segment.etext_num,
                                          segment.start_id, segment.end_id))
           /\ docs' = IF emitting THEN Append(docs, doc) ELSE docs
           /\ doc_counter' = IF emitting THEN doc_counter + 1 ELSE doc_counter
           /\ last_pnum' = IF emitting THEN GetLastPnum(doc.etext_pages, last_pnum)
                           ELSE last_pnum
    /\ seg_i' = seg_i + 1
    /\ UNCHANGED << convVars, funVars, inputVars, pc, oel, converted_etexts, content_locations, all_segments,
                    current_doc_text, current_doc_annotations, current_doc_mw,
                    current_doc_start_offset >>

\* After the loop: the document still open is emitted.  Its annotations are
\* handed to _create_document_from_parts as they are, which shifts them in
\* place (line 351, then lines 511-512 of _build_etext_doc).
FinishRemaining ==
    /\ pc = "loop"
    /\ seg_i > Len(all_segments)
    /\ LET doc == CreateDocumentFromParts(current_doc_text, current_doc_annotations,
                      doc_counter + 1,
                      IF current_doc_mw # None THEN current_doc_mw ELSE mw_root_lname,
                      current_doc_start_offset, last_pnum)
       IN  /\ docs' = IF current_doc_text # << >> THEN Append(docs, doc) ELSE docs
           /\ doc_counter' = IF current_doc_text # << >> THEN doc_counter + 1 ELSE doc_counter
    /\ current_doc_annotations' =
           IF current_doc_text # << >>
           THEN ShiftPages(ShiftAllAnnotations(ShiftPages(current_doc_annotations, last_pnum),
                                               current_doc_start_offset),
                           last_pnum)
           ELSE current_doc_annotations
    /\ pc' = "done"
    /\ UNCHANGED << convVars, funVars, inputVars, oel, converted_etexts, content_locations, all_segments,
                    seg_i, current_doc_text, current_doc_mw,
                    current_doc_start_offset, last_pnum, log >>

Next ==
    \/ FetchOutline
    \/ ConvertEtext
    \/ ConvertEtextNoBody
    \/ DocsWithoutOutline
    \/ SegmentNoContentLocations
    \/ BuildSegments
    \/ MatchedSegment
    \/ GapSegment
    \/ FinishRemaining

Spec == Init /\ [][Next]_vars

\* ===================================================================
\* Specification SpecConv: convert_tei_root_to_standoff on one document
\* ===================================================================
\* Items per serialised body.
MaxItems == 4

ConvAlphabet ==
    { Chr("a"), Chr(" "), Chr("\n"),
      PbMarker("1"), PbMarker(""), MilestoneMarker("m1"),
      HiOpen("b"), HiClose("b"), HiOpen("head"), HiClose("head"),
      DivStartMarker, DivEndMarker,
      DivStartMarkerOpen, DivStartMarkerClose,
      OtherMarker("x"), Entity("amp"),
      NumericEntity(<< 9 >>), NumericEntity(<< 6, 5 >>),
      NumericEntity(<< 1, 1, 0, 0, 0, 0 >>),
      HiOpen("small caps") }

\* The sequences of at most n items.
ItemSeqs(n) == UNION { [1..k -> ConvAlphabet] : k \in 0..n }

\* The variables of the segmentation, at rest.
SegmentationIdle ==
    /\ xml_files = << >>
    /\ outline = [given |-> FALSE, fetched |-> FALSE, raises |-> FALSE, cls |-> << >>]
    /\ vol_num = 1
    /\ pc = "idle"
    /\ oel = [present |-> FALSE, cls |-> << >>]
    /\ converted_etexts = << >>
    /\ content_locations = << >>
    /\ all_segments = << >>
    /\ seg_i = 1
    /\ doc_counter = 0
    /\ current_doc_text = << >>
    /\ current_doc_annotations = EmptyAnnotations
    /\ current_doc_mw = None
    /\ current_doc_start_offset = 0
    /\ last_pnum = 0
    /\ docs = << >>
    /\ log = << >>

InitConv ==
    /\ SegmentationIdle
    /\ FunctionIdle
    /\ \E body \in BOOLEAN : \E items \in ItemSeqs(MaxItems) :
          /\ (~body => items = << >>)
          /\ root = [body |-> body, items |-> items]
    /\ step = "start"
    /\ xml_str = << >>
    /\ xml_annotations = NoAnnotations

\* Lines 610-614: no body element, (None, None, None) is returned.
NoBody ==
    /\ step = "start" /\ ~root.body
    /\ log' = Append(log, LogEntry("error", "no body", 0, None, None))
    /\ step' = "none"
    /\ UNCHANGED << funVars, inputVars, pc, oel, converted_etexts, content_locations,
                    all_segments, seg_i, loopVars, docs, root, xml_str, xml_annotations >>

\* etree.Element(tag) takes a tag name only: a name with a space in it
\* raises ValueError.  The rend values of the model that make "hi_" + rend
\* no tag name.
InvalidRends == { "small caps" }

\* Some hi element of the body has a rend that makes no tag name.
HasInvalidRend(items) ==
    \E i \in 1..Len(items) :
        items[i].k \in {"hi_open", "hi_close"} /\ items[i].v \in InvalidRends

\* Line 688: etree.Element(f'hi_{render_val}') raises ValueError, which
\* leaves convert_tei_root_to_standoff; nothing is returned.
InvalidRendRaises ==
    /\ step = "start" /\ root.body /\ HasInvalidRend(root.items)
    /\ step' = "raised"
    /\ UNCHANGED << segVars, funVars, root, xml_str, xml_annotations >>

\* Lines 616-748: the body serialised, annotations = {}.
SerialiseBody ==
    /\ step = "start" /\ root.body /\ ~HasInvalidRend(root.items)
    /\ xml_str' = root.items
    /\ xml_annotations' = NoAnnotations
    /\ step' = "div_boundaries"
    /\ UNCHANGED << segVars, funVars, root >>

\* One pass of lines 750-763: xml_str = pass(xml_str, annotations).
PassStep(from, r, to) ==
    /\ step = from
    /\ xml_str' = r.text
    /\ xml_annotations' = r.annotations
    /\ step' = to
    /\ UNCHANGED << segVars, funVars, root >>

DivBoundariesPass ==
    PassStep("div_boundaries", ConvertDivBoundaries(xml_str, xml_annotations), "milestones")
MilestonesPass ==
    PassStep("milestones", ConvertMilestones(xml_str, xml_annotations), "pages")
PagesPass ==
    PassStep("pages", ConvertPages(xml_str, xml_annotations), "hi")
HiPass ==
    PassStep("hi", ConvertHi(xml_str, xml_annotations), "other")
OtherMarkersPass ==
    PassStep("other", RemoveOtherMarkers(xml_str, xml_annotations), "unescape")
\* Some numeric character reference of the text is beyond the last code
\* point.
HasCodePointOverflow(text) ==
    \E i \in 1..Len(text) : text[i].k = "num" /\ HexValue(text[i].v) > MaxCodePoint

\* Line 347: chr() raises ValueError, which leaves get_string, unescape_xml
\* and convert_tei_root_to_standoff; nothing is returned.
UnescapeRaises ==
    /\ step = "unescape" /\ HasCodePointOverflow(xml_str)
    /\ step' = "raised"
    /\ UNCHANGED << segVars, funVars, root, xml_str, xml_annotations >>

UnescapePass ==
    /\ ~HasCodePointOverflow(xml_str)
    /\ PassStep("unescape", UnescapeXml(xml_str, xml_annotations), "new_lines")
NewLinesPass ==
    PassStep("new_lines", NormalizeNewLines(xml_str, xml_annotations), "trim")
TrimPass ==
    PassStep("trim", TrimTextAndAdjustAnnotations(xml_str, xml_annotations), "align")

\* Lines 766-767 (no div marker exists under xml:space="preserve", where the
\* call is skipped and would change nothing).
AlignPass ==
    /\ step = "align"
    /\ xml_annotations' = AlignDivMilestonesNl(xml_str, xml_annotations)
    /\ step' = "synthesize"
    /\ UNCHANGED << segVars, funVars, root, xml_str >>

\* Lines 771-775: the bop:/eop: milestones, then the triple is returned.
SynthesizePass ==
    /\ step = "synthesize"
    /\ xml_annotations' = SynthesizePageBoundaryMilestones(xml_annotations)
    /\ step' = "returned"
    /\ UNCHANGED << segVars, funVars, root, xml_str >>

NextConv ==
    \/ NoBody
    \/ InvalidRendRaises
    \/ SerialiseBody
    \/ DivBoundariesPass
    \/ MilestonesPass
    \/ PagesPass
    \/ HiPass
    \/ OtherMarkersPass
    \/ UnescapeRaises
    \/ UnescapePass
    \/ NewLinesPass
    \/ TrimPass
    \/ AlignPass
    \/ SynthesizePass

SpecConv == InitConv /\ [][NextConv]_vars

\* ===================================================================
\* The helper functions of the converter, each called on its own
\* ===================================================================
MaxPos == 4          \* greatest position and breakpoint
MaxBreaks == 3       \* greatest number of breakpoints
MaxDiff == 2         \* greatest absolute value of a diff

\* The strictly increasing lists of at most MaxBreaks breakpoints, as
\* add_position_diff builds them.
BreakpointLists ==
    { ps \in UNION { [1..k -> 0..MaxPos] : k \in 0..MaxBreaks } :
        \A i \in 1..Len(ps) : \A j \in 1..Len(ps) : i < j => ps[i] < ps[j] }

DiffLists(k) == [1..k -> (0 - MaxDiff)..MaxDiff]

MaxTrimLen == 3      \* greatest length of a text given to the trim
MaxCalls == 3        \* greatest number of add_position_diff calls in a row

\* The texts of at most MaxTrimLen characters, white space included.
TrimTexts == UNION { [1..k -> {Chr("a"), Chr(" "), Chr("\n")}] : k \in 0..MaxTrimLen }

\* Annotations of every kind with coordinates within [0, len]: a page and a
\* highlight over [s, e], a milestone at p, a div boundary over [p, e].
TrimAnnotations(len) ==
    { [div_boundaries |-> << [cstart |-> p, cend |-> e] >>,
       milestones |-> << [id |-> "m1", pos |-> p] >>,
       pages |-> << [cstart |-> s, cend |-> e, pnum |-> 1, pname |-> ""] >>,
       hi |-> << [rend |-> "b", cstart |-> s, cend |-> e] >>] :
        s \in 0..len, e \in 0..len, p \in 0..len }

\* The patterns get_string is called with on its own: the first one of
\* normalize_new_lines, whose replacement is never longer than the match, and
\* one whose replacement is longer than the match.
CallPatterns == { "nl", "double" }

\* The two modules that have a get_string.
CallModules == { "tei_to_standoff", "es_utils" }

InitFun ==
    /\ SegmentationIdle
    /\ ConversionIdle
    /\ \/ \E p \in 0..MaxPos : \E ps \in BreakpointLists : \E ds \in DiffLists(Len(ps)) :
             call = [fn |-> "correct_position", current_position |-> p,
                     positions |-> ps, diffs |-> ds]
       \/ \E text \in TrimTexts : \E annotations \in TrimAnnotations(Len(text)) :
             call = [fn |-> "trim", text |-> text, annotations |-> annotations]
       \/ call = [fn |-> "add_position_diff", positions |-> << >>, diffs |-> << >>]
       \/ \E orig \in TrimTexts : \E annotations \in TrimAnnotations(Len(orig)) :
          \E pattern \in CallPatterns : \E module \in CallModules :
             call = [fn |-> "get_string", module |-> module, orig |-> orig,
                     pattern |-> pattern, annotations |-> annotations]
    /\ result = [done |-> FALSE, times |-> 0, value |-> 0]

\* correct_position(current_position, positions, diffs) is called.
CorrectPositionCall ==
    /\ call.fn = "correct_position" /\ ~result.done
    /\ result' = [done |-> TRUE, times |-> 1,
                  value |-> CorrectPosition(call.current_position, call.positions, call.diffs)]
    /\ UNCHANGED << segVars, convVars, call >>

\* trim_text_and_adjust_annotations(text, annotations) is called; the value is
\* the text returned and the annotations as the call left them.
TrimCall ==
    /\ call.fn = "trim" /\ ~result.done
    /\ result' = [done |-> TRUE, times |-> 1,
                  value |-> TrimTextAndAdjustAnnotations(call.text, call.annotations)]
    /\ UNCHANGED << segVars, convVars, call >>

\* trim_text_and_adjust_annotations is called again, on what the first call
\* gave; first keeps the outcome of the first call.
TrimAgainCall ==
    /\ call.fn = "trim" /\ result.done /\ result.times = 1
    /\ result' = [done |-> TRUE, times |-> 2,
                  value |-> TrimTextAndAdjustAnnotations(result.value.text,
                                                         result.value.annotations),
                  first |-> result.value]
    /\ UNCHANGED << segVars, convVars, call >>

\* add_position_diff(positions, diffs, position, cumulative_diff) is called on
\* the lists as the calls before left them, the first time on the empty
\* lists; before keeps the lists as they were when the call was made.
AddPositionDiffCall ==
    /\ call.fn = "add_position_diff" /\ result.times < MaxCalls
    /\ \E position \in 0..MaxPos : \E cumulative_diff \in (0 - MaxDiff)..MaxDiff :
          LET before == IF result.times = 0
                        THEN [positions |-> call.positions, diffs |-> call.diffs]
                        ELSE result.value
          IN  result' = [done |-> TRUE, times |-> result.times + 1,
                         value |-> AddPositionDiff(before, position, cumulative_diff),
                         before |-> before, position |-> position,
                         cumulative_diff |-> cumulative_diff]
    /\ UNCHANGED << segVars, convVars, call >>

\* get_string(orig, pattern_string, repl_fun, annotations) of one of the two
\* modules is called; the value is what it returned and the annotations as the
\* call left them.
GetStringCall ==
    /\ call.fn = "get_string" /\ ~result.done
    /\ result' = [done |-> TRUE, times |-> 1,
                  value |-> IF call.module = "es_utils"
                            THEN EsGetString(call.orig, call.pattern, call.annotations)
                            ELSE GetString(call.orig, call.pattern, call.annotations)]
    /\ UNCHANGED << segVars, convVars, call >>

NextFun ==
    \/ GetStringCall
    \/ CorrectPositionCall
    \/ TrimCall
    \/ TrimAgainCall
    \/ AddPositionDiffCall

SpecFun == InitFun /\ [][NextFun]_vars

\* ===================================================================
\* Claims about get_docs and the segmentation (specification Spec)
\* ===================================================================
\* The segmentation ran over the content locations of the outline.
OutlineDriven ==
    /\ outline.given /\ ~outline.raises
    /\ GetContentLocationsForVolume(outline.cls, vol_num) # << >>

FirstMilestones == xml_files[1].annotations.milestones
LastMilestones == xml_files[Len(xml_files)].annotations.milestones

\* The number of times character c occurs in the texts of the emitted documents.
Occurrences(c) ==
    Cardinality(UNION { { <<d, i>> : i \in { j \in 1..Len(docs[d].base_string) :
                                               docs[d].base_string[j] = c } } :
                        d \in 1..Len(docs) })

GapLogged(segment) ==
    \E k \in 1..Len(log) :
        /\ log[k].event = "gap"
        /\ log[k].etext_num = segment.etext_num
        /\ log[k].start_id = segment.start_id
        /\ log[k].end_id = segment.end_id

\* Character i of etext e lies in a segment for which a gap was logged.
InLoggedGap(e, i) ==
    \E k \in 1..Len(all_segments) :
        /\ all_segments[k].etext_num = e
        /\ all_segments[k].start_pos < i /\ i <= all_segments[k].end_pos
        /\ GapLogged(all_segments[k])

\* The number of times character c occurs in the texts of the volume.
VolumeOccurrences(c) ==
    Cardinality(UNION { { <<e, i>> : i \in { j \in 1..Len(converted_etexts[e].text) :
                                               converted_etexts[e].text[j] = c } } :
                        e \in 1..Len(converted_etexts) })

\* The number of times character c occurs in the segments for which a gap was
\* logged.
LoggedGapOccurrences(c) ==
    Cardinality(UNION { { <<e, i>> : i \in { j \in 1..Len(converted_etexts[e].text) :
                                               /\ converted_etexts[e].text[j] = c
                                               /\ InLoggedGap(e, j) } } :
                        e \in 1..Len(converted_etexts) })

\* ---- C1
C1_Scenario ==
    /\ Len(xml_files) = 1 /\ xml_files[1].body
    /\ vol_num = 1 /\ outline.given /\ ~outline.raises
    /\ outline.cls = << ContentLocation("A", 1, <<1, 1>>, "m1", "m2") >>
    /\ MsHas(FirstMilestones, "m1") /\ MsHas(FirstMilestones, "m2")
    /\ MsGet(FirstMilestones, "m1", 0) < MsGet(FirstMilestones, "m2", 0)

\* C1: one source document with milestones m1 before m2 and the single content
\* location {A, etext 1..1, m1, m2}: exactly one document is emitted, its target
\* is A and its text is text[pos(m1):pos(m2)].
C1_OneDocumentBetweenMilestones ==
    (C1_Scenario /\ pc = "done") =>
        /\ Len(docs) = 1
        /\ docs[1].etext_for_instance = "A"
        /\ docs[1].base_string = Slice(xml_files[1].text, MsGet(FirstMilestones, "m1", 0),
                                MsGet(FirstMilestones, "m2", 0))

\* ---- C2
C2_Scenario ==
    /\ Len(xml_files) = 3 /\ \A d \in 1..3 : xml_files[d].body
    /\ vol_num = 1 /\ outline.given /\ ~outline.raises
    /\ outline.cls = << ContentLocation("A", 1, <<1, 3>>, "m1", "m2") >>
    /\ MsHas(FirstMilestones, "m1") /\ MsHas(LastMilestones, "m2")

\* C2: a content location A over etexts 1..3, start milestone only in etext 1,
\* end milestone only in etext 3: exactly one document is emitted, with target
\* A and text etext1[pos(start):] + etext2 + etext3[:pos(end)].
C2_OneDocumentAcrossEtexts ==
    (C2_Scenario /\ pc = "done") =>
        /\ Len(docs) = 1
        /\ docs[1].etext_for_instance = "A"
        /\ docs[1].base_string =
              Slice(xml_files[1].text, MsGet(FirstMilestones, "m1", 0), Len(xml_files[1].text))
              \o xml_files[2].text
              \o Slice(xml_files[3].text, 0, MsGet(LastMilestones, "m2", 0))

\* ---- C3
\* C3: after the outline-driven segmentation, every character of the volume is
\* in the text of exactly one emitted document, or lies in a segment for which
\* a gap was logged; no character is emitted twice.  Counted per character:
\* the documents hold a character no more often than the volume does, and as
\* often as it is missing from them it occurs in the segments of the logged
\* gaps.  (The letters of a volume are pairwise distinct in the inputs, so
\* that for a letter the count is by place; line breaks repeat.)
C3_SegmentationCoverage ==
    (OutlineDriven /\ pc = "done") =>
        \A e \in 1..Len(converted_etexts) : \A i \in 1..Len(converted_etexts[e].text) :
            LET c == converted_etexts[e].text[i]
            IN  /\ Occurrences(c) <= VolumeOccurrences(c)
                /\ VolumeOccurrences(c) - Occurrences(c) <= LoggedGapOccurrences(c)

\* C3 witness: a segmentation that emitted documents for matched segments,
\* logged a gap and left the white space of that gap out of every document.
C3_Witness ==
    /\ OutlineDriven /\ pc = "done"
    /\ \E d \in 1..Len(docs) : docs[d].etext_for_instance = "A"
    /\ \E e \in 1..Len(converted_etexts) : \E i \in 1..Len(converted_etexts[e].text) :
          Occurrences(converted_etexts[e].text[i]) = 0 /\ InLoggedGap(e, i)

\* ---- C4
NoOutlineForVolume ==
    \/ ~outline.given
    \/ outline.raises
    \/ GetContentLocationsForVolume(outline.cls, vol_num) = << >>

\* C4: without outline for the volume (none given, the lookup raised, or no
\* content location for the volume, as after a failed fetch) there is exactly
\* one document per source document, in order, each under the root target
\* with the text unchanged.
C4_OneDocumentPerEtext ==
    (NoOutlineForVolume /\ pc = "done") =>
        /\ Len(docs) = Len(xml_files)
        /\ \A d \in 1..Len(docs) :
              /\ docs[d].etext_for_instance = mw_root_lname
              /\ docs[d].base_string = xml_files[d].text

\* C4 witness: an outline was fetched and has content locations, none of them
\* for this volume, and the volume has several source documents, one blank.
C4_Witness ==
    /\ pc = "done"
    /\ outline.given /\ ~outline.raises /\ outline.cls # << >>
    /\ GetContentLocationsForVolume(outline.cls, vol_num) = << >>
    /\ Len(xml_files) >= 2 /\ Len(docs) = Len(xml_files)
    /\ ~StripNonEmpty(xml_files[Len(xml_files)].text)

\* ---- C5
\* The page numbers of the emitted documents, in emission order.
PageNumbers == Flatten([d \in 1..Len(docs) |->
                  [i \in 1..Len(docs[d].etext_pages) |-> docs[d].etext_pages[i].pnum]])

\* C5: in the documents of an outline-driven segmentation the page numbers are
\* continuous over the volume: each is the previous one plus 1.
C5_PageNumbersContinuous ==
    (OutlineDriven /\ pc = "done") =>
        \A k \in 1..(Len(PageNumbers) - 1) : PageNumbers[k + 1] = PageNumbers[k] + 1

\* ---- C6
DocAnnotations(d) == docs[d].etext_pages \o docs[d].etext_spans

\* The page and span offsets of every source document lie within its text.
\* (The converter's last substitution of line breaks updates no offset: the
\* offsets of a document with paragraphs can lie beyond its text.)
SourceOffsetsWithinText ==
    \A f \in 1..Len(xml_files) :
        \A k \in 1..Len(xml_files[f].annotations.pages \o xml_files[f].annotations.hi) :
            LET a == (xml_files[f].annotations.pages \o xml_files[f].annotations.hi)[k]
            IN  0 <= a.cstart /\ a.cstart <= a.cend /\ a.cend <= Len(xml_files[f].text)

C9_NoBodyDoesNotAbortVolume ==
    /\ pc # "raised"
    /\ pc = "done" =>
          \A f \in 1..Len(xml_files) : \A i \in 1..Len(xml_files[f].text) :
              xml_files[f].body /\ ~IsSpace(xml_files[f].text[i])
                  => Occurrences(xml_files[f].text[i]) = 1

\* ---- C10
C10_Scenario ==
    /\ vol_num = 1 /\ outline.given /\ ~outline.raises
    /\ \A d \in 1..Len(xml_files) : xml_files[d].body
    /\ \E r \in { <<0, 0>>, <<1, 1>>, <<1, Len(xml_files)>> } :
          outline.cls = << ContentLocation("A", 1, r, "m1", None) >>
    /\ ~MsHas(FirstMilestones, "m1")

\* C10: a content location whose start milestone is absent from the milestone
\* table of its first document is treated as starting at the document start:
\* it claims every segment of that document (no gap there, the text goes to A).
C10_AbsentStartMilestoneFallsBack ==
    (C10_Scenario /\ pc = "done") =>
        /\ \A k \in 1..Len(all_segments) :
              all_segments[k].etext_num = 1 => ~GapLogged(all_segments[k])
        /\ \E d \in 1..Len(docs) :
              /\ docs[d].etext_for_instance = "A"
              /\ Len(docs[d].base_string) >= Len(xml_files[1].text)
              /\ SubSeq(docs[d].base_string, 1, Len(xml_files[1].text)) = xml_files[1].text

\* ===================================================================
\* Claims about convert_tei_root_to_standoff (specification SpecConv)
\* ===================================================================
RangeWithin(anns, n) ==
    \A i \in 1..Len(anns) :
        0 <= anns[i].cstart /\ anns[i].cstart <= anns[i].cend /\ anns[i].cend <= n

\* C7: in the annotations returned for a document with a body, every page,
\* span and division has 0 <= start <= end <= len(text) and every milestone
\* offset lies in [0, len(text)].
C7_OffsetsWithinText ==
    step = "returned" =>
        /\ RangeWithin(xml_annotations.pages, TextLen(xml_str))
        /\ RangeWithin(xml_annotations.hi, TextLen(xml_str))
        /\ RangeWithin(xml_annotations.div_boundaries, TextLen(xml_str))
        /\ \A i \in 1..Len(xml_annotations.milestones) :
              /\ 0 <= xml_annotations.milestones[i].pos
              /\ xml_annotations.milestones[i].pos <= TextLen(xml_str)

\* C8: in the returned annotations of a document with at least one page
\* marker the pages partition the text: the first page starts at 0, each page
\* ends 2 characters before the next one starts, the last ends at len(text).
C8_PagesPartitionText ==
    (step = "returned" /\ xml_annotations.pages # << >>) =>
        LET pages == xml_annotations.pages
        IN  /\ pages[1].cstart = 0
            /\ \A i \in 1..(Len(pages) - 1) : pages[i].cend + 2 = pages[i + 1].cstart
            /\ pages[Len(pages)].cend = TextLen(xml_str)

\* ===================================================================
\* Claims about the segment loop, second part (specification Spec)
\* ===================================================================
\* The segment the loop is at, its text, and the content location matching it
\* (0 when none).
CurrentSegment == all_segments[seg_i]
CurrentSegmentText ==
    Slice(converted_etexts[CurrentSegment.etext_num].text,
          CurrentSegment.start_pos, CurrentSegment.end_pos)
CurrentMatch ==
    FindMatchingCl(CurrentSegment,
                   converted_etexts[CurrentSegment.etext_num].annotations.milestones,
                   content_locations)

\* The segment at hand matches a content location with another target than the
\* open accumulation's.
OverlapAhead ==
    /\ pc = "loop" /\ seg_i <= Len(all_segments)
    /\ CurrentMatch # 0
    /\ current_doc_mw # None
    /\ current_doc_mw # content_locations[CurrentMatch].mw

\* The step of the loop at an overlap: the open accumulation, when not empty,
\* is emitted under its own target with its own text and start; an overlap
\* error is logged; the new target's accumulation starts at the segment's
\* volume offset with the segment's text (and is emitted at once when the
\* segment also ends its content location); the loop moves to the next segment.
OverlapStep ==
    LET new_mw == content_locations[CurrentMatch].mw
        closed == IF current_doc_text # << >> THEN 1 ELSE 0
        ending == IsEndOfContentLocation(CurrentSegment, content_locations[CurrentMatch])
        emitted == IF ending /\ CurrentSegmentText # << >> THEN 1 ELSE 0
    IN  /\ Len(log') = Len(log) + 1
        /\ log'[Len(log')].event = "overlap" /\ log'[Len(log')].level = "error"
        /\ Len(docs') = Len(docs) + closed + emitted
        /\ SubSeq(docs', 1, Len(docs)) = docs
        /\ closed = 1 =>
              /\ docs'[Len(docs) + 1].etext_for_instance = current_doc_mw
              /\ docs'[Len(docs) + 1].base_string = current_doc_text
              /\ docs'[Len(docs) + 1].cstart = current_doc_start_offset
        /\ current_doc_start_offset' = CurrentSegment.volume_char_offset
        /\ ~ending =>
              /\ current_doc_mw' = new_mw
              /\ current_doc_text' = CurrentSegmentText
        /\ emitted = 1 =>
              /\ docs'[Len(docs')].etext_for_instance = new_mw
              /\ docs'[Len(docs')].base_string = CurrentSegmentText
              /\ docs'[Len(docs')].cstart = CurrentSegment.volume_char_offset
        /\ seg_i' = seg_i + 1 /\ pc' = "loop"

\* C11: whenever a segment matches a content location whose target differs
\* from the target of the open accumulation, the open accumulation is emitted
\* under its own target (if not empty) before the segment is appended, an
\* overlap error is logged, a new accumulation for the new target starts at
\* the segment's volume offset with the segment's text, and the loop goes on.
C11_OverlapClosesAndRestarts == [][OverlapAhead => OverlapStep]_vars

\* C11 witness: an overlap has just closed a non-empty accumulation of A and
\* opened one for B, which holds the segment's text and is still open.
C11_Witness ==
    /\ pc = "loop" /\ seg_i > 1
    /\ log # << >> /\ log[Len(log)].event = "overlap"
    /\ docs # << >> /\ docs[Len(docs)].etext_for_instance = "A"
    /\ current_doc_mw = "B"
    /\ current_doc_text # << >>
    /\ current_doc_start_offset = all_segments[seg_i - 1].volume_char_offset
    /\ current_doc_start_offset > 0

\* ---- C12
\* The segment at hand matches no content location.
GapAhead ==
    /\ pc = "loop" /\ seg_i <= Len(all_segments)
    /\ CurrentMatch = 0

HasContent(text) == \E i \in 1..Len(text) : text[i] \notin {" ", "\n", "\t", "\r"}

LogCount(event) == Cardinality({ k \in 1..Len(log) : log[k].event = event })
RootDocs == { d \in 1..Len(docs) : docs[d].etext_for_instance = mw_root_lname }

\* The step of the loop at a gap: the gap is logged; the segment becomes a
\* document of its own under the root target, with the segment's text and
\* volume offset, exactly when its text has a character that is not white
\* space; otherwise no document is added.
GapStep ==
    /\ Len(log') = Len(log) + 1
    /\ log'[Len(log')].event = "gap"
    /\ log'[Len(log')].etext_num = CurrentSegment.etext_num
    /\ log'[Len(log')].start_id = CurrentSegment.start_id
    /\ log'[Len(log')].end_id = CurrentSegment.end_id
    /\ IF HasContent(CurrentSegmentText)
       THEN /\ Len(docs') = Len(docs) + 1
            /\ SubSeq(docs', 1, Len(docs)) = docs
            /\ docs'[Len(docs')].etext_for_instance = mw_root_lname
            /\ docs'[Len(docs')].base_string = CurrentSegmentText
            /\ docs'[Len(docs')].cstart = CurrentSegment.volume_char_offset
       ELSE docs' = docs
    /\ seg_i' = seg_i + 1 /\ pc' = "loop"

\* C12: a segment matching no content location is emitted as a document of
\* its own (root target, the segment's text, start offset the segment's
\* volume offset) if and only if its text contains a character that is not
\* white space; a gap of white space only, or empty, gives no document; in
\* both cases the gap is logged.
C12_GapDocumentIffContent == [][GapAhead => GapStep]_vars

\* C12 witness: the loop has ended after gaps of both kinds: one that became a
\* root document away from the start of the volume, and one, not empty but of
\* white space only, that was logged without a document.
C12_Witness ==
    /\ pc = "done" /\ OutlineDriven
    /\ \E d \in RootDocs : docs[d].cstart > 0
    /\ \E k \in 1..Len(all_segments) :
          /\ GapLogged(all_segments[k])
          /\ all_segments[k].end_pos > all_segments[k].start_pos
          /\ FindMatchingCl(all_segments[k],
                            converted_etexts[all_segments[k].etext_num].annotations.milestones,
                            content_locations) = 0
          /\ ~HasContent(Slice(converted_etexts[all_segments[k].etext_num].text,
                               all_segments[k].start_pos, all_segments[k].end_pos))
    /\ LogCount("gap") > Cardinality(RootDocs)

\* ===================================================================
\* Claims about the helper functions (specification SpecFun)
\* ===================================================================
\* ---- C13
\* The indices of the breakpoints that are not after p.
BreakpointsUpTo(p, positions) == { i \in 1..Len(positions) : positions[i] <= p }

\* C13: correct_position(p, positions, diffs) returns p + diffs[i], i the index
\* of the greatest breakpoint that is not after p, and p itself when no
\* breakpoint is at or before p (the empty list included), for every p and
\* every strictly increasing list of breakpoints.
C13_CorrectPositionUsesGreatestBreakpoint ==
    (call.fn = "correct_position" /\ result.done) =>
        LET upTo == BreakpointsUpTo(call.current_position, call.positions)
        IN  IF upTo = {}
            THEN result.value = call.current_position
            ELSE LET i == CHOOSE i \in upTo :
                              \A j \in upTo : call.positions[j] <= call.positions[i]
                 IN  result.value = call.current_position + call.diffs[i]

\* C13 witness: the call was made at a position that is itself a breakpoint,
\* with a breakpoint before it and one after it, the three diffs distinct and
\* the one used not zero.
C13_Witness ==
    /\ call.fn = "correct_position" /\ result.done
    /\ Len(call.positions) = 3
    /\ call.positions[2] = call.current_position
    /\ call.diffs[1] # call.diffs[2] /\ call.diffs[2] # call.diffs[3]
    /\ call.diffs[1] # call.diffs[3] /\ call.diffs[2] # 0
    /\ result.value = call.current_position + call.diffs[2]

\* ===================================================================
\* Claims about the conversion, second part (specification SpecConv)
\* ===================================================================
\* ---- C14
\* The pattern of the get_string pass made at a step (of the first one at
\* new_lines); "none" at the steps that make no such pass.
PassPattern ==
    CASE step = "div_boundaries" -> "div"
      [] step = "milestones" -> "milestones"
      [] step = "pages" -> "pages"
      [] step = "hi" -> "hi"
      [] step = "other" -> "other"
      [] step = "unescape" -> "esc"
      [] step = "new_lines" -> "nl"
      [] OTHER -> "none"

\* The coordinates recorded in an annotations dict, in a fixed order.
Coordinates(annotations) ==
    LET ranges == annotations.div_boundaries \o annotations.pages \o annotations.hi
    IN  [i \in 1..Len(ranges) |-> ranges[i].cstart]
        \o [i \in 1..Len(ranges) |-> ranges[i].cend]
        \o [i \in 1..Len(annotations.milestones) |-> annotations.milestones[i].pos]

\* The annotations of before the hi pass have no hi entry; the ones the pass
\* itself records are left out of the comparison.
RecordedBefore(annotations, before) ==
    [annotations EXCEPT !.hi = SubSeq(@, 1, Len(before.hi))]

\* The output position at which the replacement of the match starting at s
\* was written.
ReplacementStart(r, s) ==
    LET j == CHOOSE j \in 1..Len(r.calls) : r.calls[j].start = s
    IN  r.calls[j].cstart

\* In the result r of a pass over annotations before: a coordinate p inside a
\* shrinking match [s, e) is mapped to the image of s plus min(p - s,
\* replacement length), which is within the replacement.
ShrunkPointsAnchored(r, before) ==
    LET old == Coordinates(before)
        new == Coordinates(RecordedBefore(r.annotations, before))
    IN  \A k \in 1..Len(r.collapsed_spans) : \A i \in 1..Len(old) :
            LET sp == r.collapsed_spans[k]
                start == ReplacementStart(r, sp[1])
            IN  (sp[1] <= old[i] /\ old[i] < sp[2]) =>
                    /\ new[i] = CorrectPosition(sp[1], r.positions, r.diffs)
                                + Min(old[i] - sp[1], sp[3])
                    /\ start <= new[i] /\ new[i] <= start + sp[3]

\* The second pass of normalize_new_lines, made on the result r1 of the first.
SecondNewLinesPassAnchored(r1) ==
    ShrunkPointsAnchored(GetString(r1.output, "nl_multi", r1.annotations), r1.annotations)

\* C14: in one get_string pass, for every shrinking match [s, e), every
\* coordinate p recorded before the pass with s <= p < e is mapped to
\* resolve(s) + min(p - s, replacement length), and so lies within
\* [replacement start, replacement start + replacement length].
C14_ShrunkMatchAnchorsInteriorPoints ==
    /\ PassPattern # "none" =>
          ShrunkPointsAnchored(GetString(xml_str, PassPattern, xml_annotations),
                               xml_annotations)
    /\ step = "new_lines" =>
          SecondNewLinesPassAnchored(GetString(xml_str, "nl", xml_annotations))

\* Some coordinate recorded before the pass is strictly inside a shrinking
\* match whose replacement is not empty, further from its start than the
\* replacement is long.
ClampedInteriorPoint(r, before) ==
    \E k \in 1..Len(r.collapsed_spans) : \E i \in 1..Len(Coordinates(before)) :
        /\ r.collapsed_spans[k][3] > 0
        /\ Coordinates(before)[i] - r.collapsed_spans[k][1] > r.collapsed_spans[k][3]
        /\ Coordinates(before)[i] < r.collapsed_spans[k][2]

\* C14 witness: a pass is about to shrink a match around a recorded coordinate
\* that is clamped to the end of the replacement.
C14_Witness ==
    /\ PassPattern # "none"
    /\ ClampedInteriorPoint(GetString(xml_str, PassPattern, xml_annotations), xml_annotations)

\* ===================================================================
\* Claims about the matching of content locations (specification Spec)
\* ===================================================================
\* ---- C15
\* The milestone table of the source document of a segment.
MilestonesOf(segment) == converted_etexts[segment.etext_num].annotations.milestones

\* The segment does not start before the start milestone of cl (which is in
\* its document).
AtOrAfterStartMilestone(segment, cl) ==
    /\ MsHas(MilestonesOf(segment), cl.id_in_etext)
    /\ segment.start_id # None =>
          MsGet(MilestonesOf(segment), segment.start_id, 0)
             >= MsGet(MilestonesOf(segment), cl.id_in_etext, 0)

\* The segment does not end after the end milestone of cl (which is in its
\* document).
AtOrBeforeEndMilestone(segment, cl) ==
    /\ MsHas(MilestonesOf(segment), cl.end_id_in_etext)
    /\ segment.end_id # None
    /\ MsGet(MilestonesOf(segment), segment.end_id, 0)
          <= MsGet(MilestonesOf(segment), cl.end_id_in_etext, 0)

\* What a content location over several volumes claims in the volume under
\* segmentation: in its first volume from (etext start, start milestone) to
\* the end of the volume, in its last volume from the beginning of the volume
\* to (etext end, end milestone), in a volume between the two everything.
SpanningClaims(segment, cl) ==
    LET first == IF cl.etextnum_start = 0 THEN 1 ELSE cl.etextnum_start
    IN  /\ vol_num = cl.vnum_start =>
              \/ segment.etext_num > first
              \/ /\ segment.etext_num = first
                 /\ cl.id_in_etext # None => AtOrAfterStartMilestone(segment, cl)
        /\ vol_num = cl.vnum_end =>
              \/ cl.etextnum_end = 0
              \/ segment.etext_num < cl.etextnum_end
              \/ /\ segment.etext_num = cl.etextnum_end
                 /\ cl.end_id_in_etext # None => AtOrBeforeEndMilestone(segment, cl)

SpanningOutline ==
    /\ OutlineDriven
    /\ Len(outline.cls) = 1
    /\ outline.cls[1].vnum_start < outline.cls[1].vnum_end

\* C15: for a content location spanning several volumes, the start etext and
\* start milestone constrain only its first volume and the end etext and end
\* milestone constrain only its last volume: in the first volume it claims the
\* segments from (etext start, start milestone) to the end of the volume, in
\* the last volume the segments from the beginning of the volume to (etext
\* end, end milestone), also when the end etext is before the start etext. A
\* segment passed by the loop was then left as a gap exactly when the content
\* location does not claim it.
C15_SpanningLocationClaimsPerVolume ==
    (SpanningOutline /\ pc \in {"loop", "done"}) =>
        \A k \in 1..Len(all_segments) :
            k < seg_i =>
                (GapLogged(all_segments[k]) <=> ~SpanningClaims(all_segments[k], outline.cls[1]))

\* ---- C20
\* One content location of volume 1 alone, without end etext, without
\* milestones, over a volume of several source documents.
C20_Scenario ==
    /\ OutlineDriven
    /\ Len(outline.cls) = 1
    /\ outline.cls[1].vnum_end = 1
    /\ outline.cls[1].etextnum_end = 0
    /\ outline.cls[1].id_in_etext = None /\ outline.cls[1].end_id_in_etext = None
    /\ Len(xml_files) >= 2

\* C20: a content location whose end etext is absent has an open-ended etext
\* range: over several source documents and without end milestone its
\* accumulation is not closed at the end of an intermediate document, and
\* exactly one document is emitted for it, covering every source document
\* from its start etext (here the first) to the end of the volume.
C20_OpenEndedRangeOneDocument ==
    (C20_Scenario /\ pc = "done") =>
        /\ Len(docs) = 1
        /\ docs[1].etext_for_instance = outline.cls[1].mw
        /\ docs[1].cstart = 0
        /\ docs[1].base_string = Flatten([i \in 1..Len(xml_files) |-> xml_files[i].text])

\* ---- C19
\* The content locations that claim the segment at hand.
Matching ==
    { i \in 1..Len(content_locations) :
        ClMatches(CurrentSegment, MilestonesOf(CurrentSegment), content_locations[i]) }

\* The number of milestone constraints of cl that the segment at hand had to
\* satisfy: the start milestone in the start etext, the end milestone in the
\* end etext.
Specificity(cl) ==
    LET etext_num == CurrentSegment.etext_num
        atStart == etext_num = OrNum(cl.etextnum_start, 1) /\ cl.id_in_etext # None
        atEnd == etext_num = OrNum(cl.etextnum_end, etext_num) /\ cl.end_id_in_etext # None
    IN  (IF atStart THEN 1 ELSE 0) + (IF atEnd THEN 1 ELSE 0)

MostSpecific ==
    { i \in Matching :
        \A j \in Matching : Specificity(content_locations[j]) <= Specificity(content_locations[i]) }

SeveralMatch ==
    /\ pc = "loop" /\ seg_i <= Len(all_segments)
    /\ Cardinality(Matching) > 1

\* The step of the loop gave the segment at hand to target mw.
SegmentGivenTo(mw) ==
    /\ current_doc_mw' # None => current_doc_mw' = mw
    /\ (current_doc_mw' = None /\ Len(docs') > Len(docs)) =>
          docs'[Len(docs')].etext_for_instance = mw

\* C19: when several content locations match the same segment, the one with
\* the most specific milestone match is chosen (satisfied milestone
\* constraints win over a match by etext range only), whatever the order of
\* the list, and a case that cannot be ranked is reported as an error.
C19_MostSpecificMatchWins ==
    [][SeveralMatch =>
          IF Cardinality(MostSpecific) = 1
          THEN SegmentGivenTo(content_locations[CHOOSE i \in MostSpecific : TRUE].mw)
          ELSE /\ Len(log') = Len(log) + 1
               /\ log'[Len(log')].level = "error"
               /\ log'[Len(log')].event = "ambiguous"]_vars

\* ===================================================================
\* Claims about the annotations of the conversion (specification SpecConv)
\* ===================================================================
\* ---- C16
IsPageMarker(item) == item.k = "pb"
IsHighlightOpen(item) == item.k = "hi_open"

\* The highlight markers of the items from i on are those of elements of a
\* tree: each closing marker closes the innermost open one, none stays open,
\* and no marker is nested in one of its own kind (open: the kinds open at i).
RECURSIVE WellNested(_, _, _)
WellNested(items, i, open) ==
    IF i > Len(items) THEN open = << >>
    ELSE IF items[i].k = "hi_open"
         THEN /\ \A j \in 1..Len(open) : open[j] # items[i].v
              /\ WellNested(items, i + 1, Append(open, items[i].v))
         ELSE IF items[i].k = "hi_close"
              THEN /\ open # << >>
                   /\ open[Len(open)] = items[i].v
                   /\ WellNested(items, i + 1, SubSeq(open, 1, Len(open) - 1))
              ELSE WellNested(items, i + 1, open)

\* The pages are the page markers in order, numbered from 1, each with the
\* label of its marker.
OnePagePerMarker(pages, markers) ==
    /\ Len(pages) = Len(markers)
    /\ \A i \in 1..Len(pages) : pages[i].pnum = i /\ pages[i].pname = markers[i].v

\* The spans are the highlight markers in order, each with its render kind.
OneSpanPerHighlight(spans, markers) ==
    /\ Len(spans) = Len(markers)
    /\ \A i \in 1..Len(spans) : spans[i].rend = markers[i].v

\* C16: the converter emits exactly one page per page marker of the
\* document, in document order, numbered 1, 2, ... and with the label of the
\* marker when it has one, and exactly one span per highlight marker (a
\* heading is a highlight of kind "head"), each with the render kind of its
\* marker.
C16_OnePagePerMarkerOneSpanPerHighlight ==
    (step = "returned" /\ root.body /\ WellNested(root.items, 1, << >>)) =>
        /\ OnePagePerMarker(xml_annotations.pages, SelectSeq(root.items, IsPageMarker))
        /\ OneSpanPerHighlight(xml_annotations.hi, SelectSeq(root.items, IsHighlightOpen))

\* ---- C17
\* C17: in the output of the converter, for every page N the milestone table
\* has "bop:N" at the final start of the page and "eop:N" at its final end,
\* and there is no such milestone without its page: a document without pages
\* gets none.
C17_PageBoundaryMilestones ==
    (step = "returned" /\ root.body) =>
        \A n \in 1..(MaxItems + 1) :
            IF n <= Len(xml_annotations.pages)
            THEN /\ xml_annotations.pages[n].pnum = n
                 /\ MsHas(xml_annotations.milestones, BopId(n))
                 /\ MsGet(xml_annotations.milestones, BopId(n), -1) = xml_annotations.pages[n].cstart
                 /\ MsHas(xml_annotations.milestones, EopId(n))
                 /\ MsGet(xml_annotations.milestones, EopId(n), -1) = xml_annotations.pages[n].cend
            ELSE /\ ~MsHas(xml_annotations.milestones, BopId(n))
                 /\ ~MsHas(xml_annotations.milestones, EopId(n))

\* C17 witness: the converter returned two pages, the second one not empty and
\* not at offset 0, and the four milestones of their boundaries.
C17_Witness ==
    /\ step = "returned" /\ root.body
    /\ Len(xml_annotations.pages) = 2
    /\ xml_annotations.pages[2].cstart > 0
    /\ xml_annotations.pages[2].cend > xml_annotations.pages[2].cstart
    /\ MsGet(xml_annotations.milestones, BopId(2), -1) = xml_annotations.pages[2].cstart
    /\ MsGet(xml_annotations.milestones, EopId(2), -1) = xml_annotations.pages[2].cend
    /\ MsHas(xml_annotations.milestones, BopId(1))
    /\ MsHas(xml_annotations.milestones, EopId(1))

\* ---- C18
\* The text has no white space at its start nor at its end.
IsTrimmed(text) ==
    text = << >> \/ (~InClass("ws", text[1]) /\ ~InClass("ws", text[Len(text)]))

\* C18: the trim is idempotent: on a text without leading or trailing white
\* space, with annotations whose offsets are within [0, len(text)], it returns
\* the same text and the same coordinates; and on any text, applying it twice
\* gives what applying it once gives.
C18_TrimIdempotent ==
    (call.fn = "trim" /\ result.done) =>
        /\ (result.times = 1 /\ IsTrimmed(call.text)) =>
              result.value = [text |-> call.text, annotations |-> call.annotations]
        /\ result.times = 2 => result.value = result.first

\* C18 witness: the trim was applied twice to a text with white space at both
\* ends; the first application cut the text and moved a coordinate, the
\* second changed nothing.
C18_Witness ==
    /\ call.fn = "trim" /\ result.done /\ result.times = 2
    /\ Len(call.text) = 3
    /\ InClass("ws", call.text[1]) /\ InClass("ws", call.text[3])
    /\ Len(result.first.text) = 1
    /\ call.annotations.pages[1].cend = 3
    /\ result.first.annotations.pages[1].cend = 1
    /\ result.value = result.first

\* ===================================================================
\* Claims about the documents of the segment loop (specification Spec)
\* ===================================================================
\* ---- C21
\* C21: the list of documents returned by _segment_etexts_by_outline is
\* ordered by position in the volume: a document earlier in the list starts
\* at or before a later one, also when gap documents are emitted while an
\* accumulation is open.
C21_DocumentsOrderedByStart ==
    (OutlineDriven /\ pc = "done") =>
        \A i \in 1..Len(docs) : \A j \in 1..Len(docs) :
            i < j => docs[i].cstart <= docs[j].cstart

\* ---- C27
\* The converted documents of the volume put end to end.
VolumeText == Flatten([i \in 1..Len(converted_etexts) |-> converted_etexts[i].text])

\* C27: every document emitted by the outline-driven segmentation holds a
\* contiguous piece of the volume: its end offset is its start offset plus the
\* length of its text, and its text is the slice of the concatenation of the
\* converted documents between the two offsets, for every interleaving of
\* matched and gap segments.
C27_DocumentsAreSlicesOfVolume ==
    (OutlineDriven /\ pc \in {"loop", "done"}) =>
        \A d \in 1..Len(docs) :
            /\ docs[d].cend = docs[d].cstart + Len(docs[d].base_string)
            /\ docs[d].base_string = Slice(VolumeText, docs[d].cstart, docs[d].cend)

\* ---- C30
\* The text of segment k of the volume.
SegmentText(k) ==
    Slice(converted_etexts[all_segments[k].etext_num].text,
          all_segments[k].start_pos, all_segments[k].end_pos)

\* Document d is the document of a gap: a segment already passed by the loop,
\* that no content location claims, with the text and the offset of d.
IsGapDocument(d) ==
    \E k \in 1..Len(all_segments) :
        /\ k < seg_i
        /\ FindMatchingCl(all_segments[k], MilestonesOf(all_segments[k]), content_locations) = 0
        /\ GapLogged(all_segments[k])
        /\ docs[d].cstart = all_segments[k].volume_char_offset
        /\ docs[d].base_string = SegmentText(k)

Targets == { content_locations[i].mw : i \in 1..Len(content_locations) }

\* C30: at every step of the segment loop a non-empty accumulated text implies
\* that a current target is set; hence every document emitted from an
\* accumulation, the final flush included, carries the target of a content
\* location, and the root target is only given to gap documents.
C30_BufferedTextHasTarget ==
    (OutlineDriven /\ pc \in {"loop", "done"}) =>
        /\ current_doc_text # << >> => current_doc_mw \in Targets
        /\ \A d \in 1..Len(docs) :
              IF docs[d].etext_for_instance = mw_root_lname
              THEN IsGapDocument(d)
              ELSE docs[d].etext_for_instance \in Targets

\* C30 witness: the loop is over; a gap document was emitted under the root
\* target, and the accumulation of A that was still open after the last
\* segment was emitted by the final flush under A.
C30_Witness ==
    /\ OutlineDriven /\ pc = "done"
    /\ current_doc_text # << >> /\ current_doc_mw = "A"
    /\ docs[Len(docs)].etext_for_instance = "A"
    /\ docs[Len(docs)].base_string = current_doc_text
    /\ \E d \in 1..Len(docs) : docs[d].etext_for_instance = mw_root_lname

\* ---- C24
\* The segment at hand matches a content location.
MatchAhead ==
    /\ pc = "loop" /\ seg_i <= Len(all_segments)
    /\ CurrentMatch # 0

\* The last etext of a content location: its end etext, and the last etext of
\* the volume when the range is open-ended.
LastEtext(cl) == IF cl.etextnum_end # 0 THEN cl.etextnum_end ELSE Len(converted_etexts)

\* The segment ends the range of cl: it lies in the last etext of cl and ends
\* at the end milestone of cl, or, when cl has none, at the end of that etext.
EndsRange(segment, cl) ==
    /\ segment.etext_num = LastEtext(cl)
    /\ IF cl.end_id_in_etext # None
       THEN segment.end_id = cl.end_id_in_etext
       ELSE segment.end_id = None

\* The accumulation the segment at hand is appended to: the open one when it
\* has the target of the match, else a new one at the segment's offset.
Continues == current_doc_mw = content_locations[CurrentMatch].mw
TextBefore == IF Continues THEN current_doc_text ELSE << >>
StartBefore ==
    IF Continues THEN current_doc_start_offset ELSE CurrentSegment.volume_char_offset

\* The step of the loop on a matched segment, by what the segment is to the
\* range of its content location.
MatchedStep ==
    LET cl == content_locations[CurrentMatch]
        text == TextBefore \o CurrentSegmentText
    IN  IF EndsRange(CurrentSegment, cl)
        THEN /\ current_doc_mw' = None
             /\ current_doc_text' = << >>
             /\ current_doc_annotations' = EmptyAnnotations
             /\ text # << >> =>
                   /\ Len(docs') > Len(docs)
                   /\ docs'[Len(docs')].etext_for_instance = cl.mw
                   /\ docs'[Len(docs')].base_string = text
                   /\ docs'[Len(docs')].cstart = StartBefore
        ELSE /\ current_doc_mw' = cl.mw
             /\ current_doc_text' = text
             /\ current_doc_start_offset' = StartBefore
             /\ \A d \in (Len(docs) + 1)..Len(docs') :
                   docs'[d].etext_for_instance # cl.mw

\* C24: immediately after appending a matched segment, the accumulation is
\* emitted (when its text is not empty) and the segmenter is back to Idle (no
\* current target, empty text and annotation buffers) if and only if the
\* segment lies in the last etext of the content location and either ends at
\* its end milestone or, when it has none, is the last segment of that etext;
\* after any other matched segment the accumulation stays open with the same
\* target and start offset.
C24_ClosedExactlyAtEndOfRange == [][MatchAhead => MatchedStep]_vars

\* ---- C28
\* Every annotation of list source appears in list emitted with its extent.
ExtentsKept(source, emitted) ==
    \A i \in 1..Len(source) :
        \E j \in 1..Len(emitted) :
            emitted[j].cend - emitted[j].cstart = source[i].cend - source[i].cstart

\* C28: when consecutive segments of one source document are merged into the
\* same emitted document, every page and every highlight span of the source
\* that lies wholly inside the merged range appears in the emitted document
\* with its full extent, even when a milestone, and with it a segment
\* boundary, falls inside the page or span. Here all the segments of a volume
\* of one source document were merged into the one emitted document.
C28_MergedAnnotationsKeepExtent ==
    (OutlineDriven /\ pc = "done" /\ Len(converted_etexts) = 1
     /\ Len(docs) = 1 /\ docs[1].base_string = converted_etexts[1].text) =>
        /\ ExtentsKept(converted_etexts[1].annotations.pages, docs[1].etext_pages)
        /\ ExtentsKept(converted_etexts[1].annotations.hi, docs[1].etext_spans)

\* ---- C23: one boundary per division ----

\* The division markers of the items are well nested: every end marker closes
\* an open division and none stays open (depth: the divisions open at i).
RECURSIVE WellNestedDivs(_, _, _)
WellNestedDivs(items, i, depth) ==
    IF i > Len(items) THEN depth = 0
    ELSE IF items[i] = DivStartMarker THEN WellNestedDivs(items, i + 1, depth + 1)
    ELSE IF items[i] = DivEndMarker
         THEN depth > 0 /\ WellNestedDivs(items, i + 1, depth - 1)
         ELSE WellNestedDivs(items, i + 1, depth)

\* The index of the end marker of the division whose start marker is before
\* j, with depth further divisions open at j.
RECURSIVE DivEndOf(_, _, _)
DivEndOf(items, j, depth) ==
    IF items[j] = DivStartMarker THEN DivEndOf(items, j + 1, depth + 1)
    ELSE IF items[j] = DivEndMarker
         THEN IF depth = 0 THEN j ELSE DivEndOf(items, j + 1, depth - 1)
         ELSE DivEndOf(items, j + 1, depth)

\* The position in the output of the division pass of the item at index i:
\* a start marker leaves nothing, an end marker leaves the two newlines.
RECURSIVE DivOutputPos(_, _)
DivOutputPos(items, i) ==
    IF i <= 1 THEN 0
    ELSE DivOutputPos(items, i - 1)
         + (IF items[i - 1] = DivStartMarker THEN 0
            ELSE IF items[i - 1] = DivEndMarker THEN 2
            ELSE ItemLen(items[i - 1]))

\* The divisions of the items, in the order of their start markers.
RECURSIVE DivisionsOf(_, _)
DivisionsOf(items, i) ==
    IF i > Len(items) THEN << >>
    ELSE IF items[i] = DivStartMarker
         THEN << [cstart |-> DivOutputPos(items, i),
                  cend |-> DivOutputPos(items, DivEndOf(items, i + 1, 0))] >>
              \o DivisionsOf(items, i + 1)
         ELSE DivisionsOf(items, i + 1)

\* C23: for every well-nested sequence of division start and end markers,
\* sequential or nested, the division pass records exactly one boundary per
\* division: its start is the output position of the division's start
\* marker and its end the output position of the same division's end marker,
\* before the two-newline separator.
C23_OneBoundaryPerDivision ==
    (step = "milestones" /\ root.body /\ WellNestedDivs(root.items, 1, 0))
        => xml_annotations.div_boundaries = DivisionsOf(root.items, 1)

\* ---- C26: the breakpoint lists built by add_position_diff ----

StrictlyIncreasing(ps) == \A i \in 1..(Len(ps) - 1) : ps[i] < ps[i + 1]

\* C26: after any sequence of add_position_diff calls that starts from empty
\* lists, the breakpoints are strictly increasing and as many as the diffs; a
\* call with a breakpoint greater than the last one (or on empty lists)
\* appends exactly one entry, and a call with a breakpoint less than or equal
\* to the last one appends nothing and replaces only the last diff, leaving
\* every breakpoint and every earlier diff unchanged.
C26_BreakpointsStrictlyIncreasing ==
    (call.fn = "add_position_diff" /\ result.times > 0)
        => LET before == result.before
               after == result.value
               n == Len(before.positions)
           IN  /\ StrictlyIncreasing(after.positions)
               /\ Len(after.positions) = Len(after.diffs)
               /\ IF n = 0 \/ result.position > before.positions[n]
                  THEN /\ after.positions = Append(before.positions, result.position)
                       /\ after.diffs = Append(before.diffs, result.cumulative_diff)
                  ELSE /\ after.positions = before.positions
                       /\ Len(after.diffs) = n
                       /\ after.diffs[n] = result.cumulative_diff
                       /\ \A i \in 1..(n - 1) : after.diffs[i] = before.diffs[i]

\* A third call, on two breakpoints, with the last breakpoint again and
\* another diff.
C26_Witness ==
    /\ call.fn = "add_position_diff" /\ result.times = 3
    /\ Len(result.before.positions) = 2
    /\ result.position = result.before.positions[2]
    /\ result.cumulative_diff # result.before.diffs[2]
    /\ result.value.positions = result.before.positions

\* ---- C29: coordinates inside the content of a highlight ----

\* In the result r of the highlight pass over text orig and annotations
\* before: a coordinate recorded before the pass that points k characters
\* into the content of a highlight marker is mapped to the start of the span
\* plus k.
ContentPointsKeepOffset(orig, r, before) ==
    LET old == Coordinates(before)
        new == Coordinates(RecordedBefore(r.annotations, before))
    IN  \A j \in 1..Len(r.calls) : \A i \in 1..Len(old) :
            LET c == r.calls[j]
                content_start == c.start + ItemLen(orig[c.m.s])
                content_end == c.end - ItemLen(orig[c.m.e])
            IN  (content_start <= old[i] /\ old[i] < content_end) =>
                    new[i] = c.cstart + (old[i] - content_start)

\* C29: in the highlight pass, a coordinate recorded by an earlier pass at
\* the original offset match start + length of the opening tag + k, that is
\* k characters into the content of the highlight marker, is mapped to
\* span start + k.
C29_HighlightContentKeepsOffset ==
    step = "hi" =>
        ContentPointsKeepOffset(xml_str, GetString(xml_str, "hi", xml_annotations),
                                xml_annotations)

\* ---- C25: coordinates between two matches move by the net change ----

\* The sum, over the calls whose match ends at or before p, of replacement
\* length minus match length.
RECURSIVE NetChange(_, _, _, _)
NetChange(orig, pattern, calls, p) ==
    IF calls = << >> THEN 0
    ELSE LET c == Head(calls)
         IN  (IF c.end <= p
              THEN TextLen(Repl(pattern, orig, c.m, c.cstart)) - (c.end - c.start)
              ELSE 0)
             + NetChange(orig, pattern, Tail(calls), p)

\* p is at or after the end of a match and before the start of the next one.
BetweenMatches(calls, p) ==
    /\ \E j \in 1..Len(calls) : calls[j].end <= p
    /\ \A j \in 1..Len(calls) : calls[j].end <= p \/ p < calls[j].start

\* In the result r of a get_string pass over orig and annotations before:
\* every coordinate recorded before that lies between two matches has moved
\* by the net change of the matches ending at or before it.
ShiftedByNetChange(orig, pattern, r, before) ==
    LET old == Coordinates(before)
        new == Coordinates(RecordedBefore(r.annotations, before))
    IN  \A i \in 1..Len(old) :
            BetweenMatches(r.calls, old[i]) =>
                new[i] = old[i] + NetChange(orig, pattern, r.calls, old[i])

\* C25: in one get_string pass, every previously recorded coordinate p that
\* is at or after the end of a match and before the start of the next match
\* is mapped to p plus the sum, over the matches ending at or before p, of
\* (replacement length - match length), for shrinking and for growing
\* replacements alike.
C25_CoordinatesShiftByNetChange ==
    (call.fn = "get_string" /\ result.done)
        => ShiftedByNetChange(call.orig, call.pattern, result.value, call.annotations)

\* ---- C22: every recorded coordinate is resolved at the end of a pass ----

\* The resolved coordinate of p after a pass with result r: the one
\* apply_position_diffs of the module computes from the lists of the pass.
Resolved(module, r, p) ==
    IF module = "es_utils" THEN CorrectPosition(p, r.positions, r.diffs)
    ELSE AdjustPoint(p, r.positions, r.diffs, r.collapsed_spans)

\* In the result r of a pass over annotations before, every coordinate
\* recorded before the pass, of whatever kind, is the resolved one.
AllCoordinatesResolved(module, r, before) ==
    LET old == Coordinates(before)
        new == Coordinates(RecordedBefore(r.annotations, before))
    IN  \A i \in 1..Len(old) : new[i] = Resolved(module, r, old[i])

\* C22: at the end of every rewrite pass that changed the string, every
\* coordinate recorded by earlier passes (page starts and ends, span starts
\* and ends, milestone offsets, division starts and ends) has been replaced
\* by its resolved coordinate; no kind of annotation is exempt, in the
\* get_string of tei_to_standoff.py and in the one of es_utils.py.
C22_EveryCoordinateResolved ==
    (call.fn = "get_string" /\ result.done /\ result.value.output # call.orig)
        => AllCoordinatesResolved(call.module, result.value, call.annotations)

====
